---- MODULE Spec2Model ----
(***************************************************************************)
(* Flow router of the campaign-management assistant                        *)
(* (src/agents/crewai-flows/router/flow_router.py): the flow table, the    *)
(* keyword fallback classifier, the LLM classifier with its fallback, and  *)
(* route / execute_flow with the dispatch to the flow entry points; the    *)
(* optimization flow behind one of them (flows/optimization_flow.py); and  *)
(* the JSON-RPC client of the MCP server (shared/mcp_client.py).           *)
(*                                                                         *)
(* Python strings are TLA+ strings; Python numbers are rationals <<n, d>>  *)
(* with d > 0 in lowest terms; None and the other dynamically typed values *)
(* are records tagged by a field t.                                        *)
(***************************************************************************)
EXTENDS Integers, Sequences, FiniteSets, TLC

VARIABLES
  op,              \* public method in progress: none, fallback, classify, route, execute
  pc,              \* where that call stands: idle, received, classified, executing, done
  query,           \* the argument of the call
  classifyCalls,   \* the arguments of the classify_intent invocations made by the call
  llmCalls,        \* chat-completion requests issued by the call
  llmReply,        \* how the LLM answered the call's chat-completion request
  classification,  \* the (flow_name, confidence) pair returned by the classifier
  repeated,        \* the pair the previous identical _fallback_classification call returned
  routing,         \* the dict built by route
  importEnv,       \* whether the flow modules could be loaded when the call imported one
  entryCalls,      \* the flow entry points invoked by the call, with their argument
  entryOutcome,    \* what the invoked entry point did (returned a value / raised)
  envelope,        \* the dict returned by execute_flow
  propagated,      \* the exception that escaped to the caller of the method, if any
  listed,          \* the value returned by list_flows
  environ,         \* os.environ's OPENAI_API_KEY
  construction,    \* the last FlowRouter(...) / create_router(...) call and its outcome
  router,          \* the FlowRouter object the caller holds, if one was constructed
  flowTable,       \* the current value of the class attribute FlowRouter.FLOW_PATTERNS
  modifications,   \* how many returned values the caller has modified
  request_id,      \* MCPClient.request_id
  sent,            \* the ids of the JSON-RPC requests POSTed so far, in order
  operations,      \* request-issuing client operations invoked so far
  clientOp,        \* client method in progress: none, call_tool, list_tools, ping
  calledTool,      \* the tool_name argument of call_tool
  clientPc,        \* where it stands: idle, posted, waiting, done
  posts,           \* HTTP POSTs issued by the client method in progress
  exchange,        \* what the transport and the server did with its request
  clientOutcome,   \* what the client method returned or raised
  catalog,         \* the dict returned by wrap_mcp_tools, if it was called
  byCategory,      \* the dict returned by get_tools_by_category
  threads,         \* the call chains invoking tools of the catalog, each with its position
  flowRun,         \* the OptimizationFlow object being run: its state, last step output, crews run
  steps,           \* the steps of that flow run so far, in order
  sessionPc,       \* interactive_mode: off, prompt, executing, handling, returned, interrupted, exited
  consumed,        \* the lines input() has returned to the session, in order
  eof,             \* whether the session's input stream has ended
  dispatched,      \* the arguments of the session's execute_flow calls, in order
  reported         \* what execute_query returned for the last of them

\* the variables of one router call
callVars == <<op, pc, query, classifyCalls, llmCalls, llmReply,
              classification,
              repeated, routing, importEnv, entryCalls, entryOutcome, envelope,
              propagated, listed>>

\* what outlives a router call
processVars == <<environ, construction, router, flowTable, modifications>>

\* the MCP client and its call in progress
clientVars == <<request_id, sent, operations, clientOp, calledTool, clientPc, posts, exchange,
                clientOutcome>>

\* the tool catalog and the call chains that use it
catalogVars == <<catalog, byCategory, threads>>

\* a run of the optimization flow
stepVars == <<flowRun, steps>>

\* the interactive session
sessionVars == <<sessionPc, consumed, eof, dispatched, reported>>

restVars == <<catalogVars, stepVars, sessionVars>>

vars == <<callVars, processVars, clientVars, restVars>>

None == [t |-> "none"]

----------------------------------------------------------------------------
(* The flow table, flow_router.py lines 26-77.  A Python dict iterates in   *)
(* insertion order; FlowOrder is the order of the keys in the literal.      *)

FLOW_PATTERNS ==
  [campaign_setup_flow |->
      [keywords |-> <<"create", "launch", "set up", "new campaigns", "bulk create", "build", "setup", "establish">>,
       description |-> "Creating new campaigns, bulk campaign creation",
       examples |-> <<"Create 10 holiday campaigns with $5000 budget each",
                      "Set up 5 campaigns for Black Friday",
                      "Launch new campaigns for Q4",
                      "Build 20 campaigns targeting millennials">>],
    optimization_flow |->
      [keywords |-> <<"pause", "optimize", "adjust", "improve", "reduce spend", "underperforming", "increase performance", "scale", "bid adjustment">>,
       description |-> "Optimizing campaign performance, pausing underperformers, adjusting budgets",
       examples |-> <<"Pause all underperforming campaigns",
                      "Optimize campaigns with high CPA",
                      "Adjust bids for better performance",
                      "Reduce spend on low-performing strategies">>],
    analytics_flow |->
      [keywords |-> <<"report", "analyze", "show", "performance", "budget utilization", "metrics", "dashboard", "statistics", "insights", "data">>,
       description |-> "Analyzing campaign performance, generating reports, showing metrics",
       examples |-> <<"Generate performance report for all campaigns",
                      "Show budget utilization analysis",
                      "Analyze campaign metrics for last 30 days",
                      "Create dashboard of key performance indicators">>],
    compliance_flow |->
      [keywords |-> <<"audit", "permissions", "access", "security", "compliance", "users", "roles", "governance", "violation">>,
       description |-> "Auditing user access, checking permissions, compliance reviews",
       examples |-> <<"Audit all user permissions for security review",
                      "Check for users with admin access",
                      "Find compliance violations in permissions",
                      "Review user access patterns">>],
    creative_flow |->
      [keywords |-> <<"creative", "refresh", "fatigue", "assets", "ads", "banner", "image", "video", "copy">>,
       description |-> "Managing creative assets, identifying refresh needs, creative fatigue analysis",
       examples |-> <<"Find all creatives that need refresh",
                      "Analyze creative fatigue across campaigns",
                      "Identify underperforming creatives",
                      "Plan creative refresh strategy">>]]

FlowOrder ==
  <<"campaign_setup_flow", "optimization_flow", "analytics_flow",
    "compliance_flow", "creative_flow">>

----------------------------------------------------------------------------
(* Strings.                                                                 *)

UpperCase == "ABCDEFGHIJKLMNOPQRSTUVWXYZ"
LowerCase == "abcdefghijklmnopqrstuvwxyz"

\* str.lower() on one character of the modelled (ASCII) alphabet
LowerChar(c) ==
  IF \E i \in 1..Len(UpperCase) : SubSeq(UpperCase, i, i) = c
  THEN LET i == CHOOSE j \in 1..Len(UpperCase) : SubSeq(UpperCase, j, j) = c
       IN  SubSeq(LowerCase, i, i)
  ELSE c

RECURSIVE lower(_)
lower(s) ==
  IF Len(s) = 0 THEN ""
  ELSE LowerChar(SubSeq(s, 1, 1)) \o lower(SubSeq(s, 2, Len(s)))

\* Python's `keyword in query_lower` on strings: substring test
Contains(keyword, s) ==
  \E i \in 1..(Len(s) - Len(keyword) + 1) :
    SubSeq(s, i, i + Len(keyword) - 1) = keyword

----------------------------------------------------------------------------
(* Numbers: a Python float or int is the rational <<n, d>>, d > 0.          *)

RECURSIVE GCD(_, _)
GCD(a, b) == IF b = 0 THEN a ELSE GCD(b, a % b)

Abs(n) == IF n < 0 THEN -n ELSE n

Rat(n, d) ==
  LET g == GCD(Abs(n), d) IN <<n \div g, d \div g>>

RatLess(a, b) == a[1] * b[2] < b[1] * a[2]
RatLeq(a, b) == a[1] * b[2] <= b[1] * a[2]

\* Python's min(a, b): b only when it is strictly smaller
RatMin(a, b) == IF RatLess(b, a) THEN b ELSE a

Num(r) == [t |-> "num", v |-> r]
Str(s) == [t |-> "str", v |-> s]

----------------------------------------------------------------------------
(* The queries the router is called with.                                   *)

MaxWords == 2

Vocabulary == {"Create", "PAUSE", "report", "ads", "set up", " "}

RECURSIVE Concat(_)
Concat(ws) == IF ws = <<>> THEN "" ELSE Head(ws) \o Concat(Tail(ws))

\* every concatenation of at most MaxWords words, the empty query included
GeneratedQueries ==
  {Concat(ws) : ws \in UNION {[1..n -> Vocabulary] : n \in 0..MaxWords}}

\* the queries of the router tests and of the flow table's first examples
TestQueries ==
  {"Create 10 holiday campaigns with $5000 budget each",
   "Pause all underperforming campaigns",
   "Generate performance report",
   "Audit user permissions",
   "Create 10 campaigns", "Launch new campaigns",
   "Pause campaigns", "Optimize performance",
   "Generate report", "Analyze metrics",
   "Audit permissions", "Check security",
   "Refresh creatives", "Creative fatigue",
   "Find creatives that need refresh",
   "Analyze creative fatigue",
   "Identify underperforming ads",
   "Show me something"}

\* queries carrying keywords of every flow at once
AdversarialQueries ==
  {"create launch build pause optimize scale report show data audit roles users creative ads copy",
   "CREATE PAUSE REPORT AUDIT FATIGUE VIDEO BANNER IMAGE",
   "audit access roles governance"}

\* the examples of the flow table
ExampleQueries ==
  UNION {{FLOW_PATTERNS[flow].examples[i] : i \in 1..Len(FLOW_PATTERNS[flow].examples)} :
           flow \in DOMAIN FLOW_PATTERNS}

Queries == GeneratedQueries \cup TestQueries \cup AdversarialQueries \cup ExampleQueries

----------------------------------------------------------------------------
(* FlowRouter._fallback_classification, flow_router.py lines 158-183.       *)

NormalizeBy == 3
LowConfidence == Rat(3, 10)

\* line 173: sum(1 for keyword in info["keywords"] if keyword in query_lower)
KeywordScore(info, query_lower) ==
  Cardinality({i \in 1..Len(info.keywords) :
                 Contains(info.keywords[i], query_lower)})

\* lines 171-174: the scores dict, keyed in the table's order
Scores(patterns, q) ==
  LET query_lower == lower(q)
  IN  [flow \in DOMAIN patterns |-> KeywordScore(patterns[flow], query_lower)]

\* the same dict, tabulated once for the class table and the model's queries
ScoreTable == [q \in Queries |-> Scores(FLOW_PATTERNS, q)]

ScoresFor(patterns, q) ==
  IF patterns = FLOW_PATTERNS /\ q \in Queries THEN ScoreTable[q]
  ELSE Scores(patterns, q)

\* max with the comparison turned: the last of several maxima wins
RECURSIVE MaxKeyFromLast(_, _, _)
MaxKeyFromLast(scores, i, best) ==
  IF i > Len(FlowOrder) THEN best
  ELSE MaxKeyFromLast(scores, i + 1,
                      IF scores[FlowOrder[i]] >= scores[best] THEN FlowOrder[i] ELSE best)

\* line 177: max(scores, key=scores.get) keeps the first key whose score no
\* later key exceeds strictly
RECURSIVE MaxKeyFrom(_, _, _)
MaxKeyFrom(scores, i, best) ==
  IF i > Len(FlowOrder) THEN best
  ELSE MaxKeyFrom(scores, i + 1,
                  IF scores[FlowOrder[i]] > scores[best] THEN FlowOrder[i] ELSE best)

MaxKey(scores) == MaxKeyFrom(scores, 2, FlowOrder[1])

\* the normalisation without its cap of 1.0
FallbackConfidenceUncapped(best_score) ==
  IF best_score > 0 THEN Rat(best_score, NormalizeBy) ELSE LowConfidence

\* line 181
FallbackConfidence(best_score) ==
  IF best_score > 0 THEN RatMin(Rat(best_score, NormalizeBy), Rat(1, 1))
  ELSE LowConfidence

Pair(flow, confidence) == [t |-> "pair", flow |-> flow, confidence |-> confidence]

_fallback_classification(patterns, q) ==
  LET scores == ScoresFor(patterns, q)
      best_flow == MaxKey(scores)
      best_score == scores[best_flow]
  IN  Pair(best_flow, FallbackConfidence(best_score))

----------------------------------------------------------------------------
(* The LLM call of classify_intent and what it can come back with.          *)
(* json.loads turns the reply text into a Python value; the reply is given  *)
(* here by that value (t = "invalid": the text is not JSON).  A JSON object *)
(* is given by its members flow, confidence and reasoning (t = "absent": no *)
(* such member).                                                            *)

Absent == [t |-> "absent"]
JsonNull == None
JsonList == [t |-> "list"]

FlowMembers ==
  {Absent, JsonNull, JsonList, Num(<<5, 1>>), Str("invalid_flow"), Str("Analytics_Flow")}
    \cup {Str(f) : f \in DOMAIN FLOW_PATTERNS}

ConfidenceMembers ==
  {Absent, JsonNull, Str("high"), Num(<<19, 20>>), Num(<<3, 2>>), Num(<<-1, 5>>)}

Reasoning == Str("Query asks to create new campaigns")

\* objects with all three members, and objects with at most "flow"
JsonObjects ==
  {[t |-> "object", flow |-> f, confidence |-> c, reasoning |-> Reasoning] :
     f \in FlowMembers, c \in ConfidenceMembers}
    \cup {[t |-> "object", flow |-> f, confidence |-> Absent, reasoning |-> Absent] :
            f \in FlowMembers}

LLMBehaviours ==
  {[outcome |-> "raises"],                          \* create(...) raises
   [outcome |-> "no_content"],                      \* message.content is None
   [outcome |-> "text", parsed |-> [t |-> "invalid"]]}
    \cup {[outcome |-> "text", parsed |-> v] :
            v \in {JsonNull, JsonList, Num(<<1, 1>>), Str("analytics_flow")} \cup JsonObjects}

Return(v) == [t |-> "return", v |-> v]
Raise(type, msg) == [t |-> "raise", type |-> type, msg |-> msg]

\* dict.get(key, default)
DictGet(obj, key, default) == IF obj[key] = Absent THEN default ELSE obj[key]

\* a list or a dict cannot be looked up in a dict (TypeError: unhashable type)
Hashable(v) == v.t \notin {"list", "object"}

\* f"{confidence:.2f}" accepts numbers only
Formattable(v) == v.t = "num"

----------------------------------------------------------------------------
(* FlowRouter.classify_intent, flow_router.py lines 92-156.                 *)

\* the try body without the membership test of line 144
ClassifyTryUnvalidated(patterns, q, llm) ==
  IF llm.outcome = "raises" THEN Raise("APIError", "API Error")
  ELSE IF llm.outcome = "no_content"
    THEN Raise("AttributeError", "'NoneType' object has no attribute 'strip'")
  ELSE IF llm.parsed.t = "invalid"
    THEN Raise("JSONDecodeError", "Expecting value")
  ELSE IF llm.parsed.t # "object"
    THEN Raise("AttributeError", "object has no attribute 'get'")
  ELSE
    LET result == llm.parsed
        flow_name == DictGet(result, "flow", None)
        confidence == DictGet(result, "confidence", Num(<<1, 2>>))
    IN  IF flow_name.t # "str" THEN Return(_fallback_classification(patterns, q))
        ELSE IF ~Formattable(confidence)
          THEN Raise("TypeError", "unsupported format string")
        ELSE Return(Pair(flow_name.v, confidence.v))

\* lines 125-151, the body of the try statement
ClassifyTry(patterns, q, llm) ==
  IF llm.outcome = "raises" THEN Raise("APIError", "API Error")
  ELSE IF llm.outcome = "no_content"
    THEN Raise("AttributeError", "'NoneType' object has no attribute 'strip'")
  ELSE IF llm.parsed.t = "invalid"
    THEN Raise("JSONDecodeError", "Expecting value")
  ELSE IF llm.parsed.t # "object"
    THEN Raise("AttributeError", "object has no attribute 'get'")
  ELSE
    LET result == llm.parsed
        flow_name == DictGet(result, "flow", None)
        confidence == DictGet(result, "confidence", Num(<<1, 2>>))
    IN  IF ~Hashable(flow_name) THEN Raise("TypeError", "unhashable type")
        ELSE IF ~(flow_name.t = "str" /\ flow_name.v \in DOMAIN patterns)
          THEN Return(_fallback_classification(patterns, q))
        ELSE IF ~Formattable(confidence)
          THEN Raise("TypeError", "unsupported format string")
        ELSE Return(Pair(flow_name.v, confidence.v))

\* a handler that catches json.JSONDecodeError only
ClassifyExceptJsonOnly(patterns, q, r) ==
  IF r.t = "raise" /\ r.type = "JSONDecodeError"
  THEN Return(_fallback_classification(patterns, q))
  ELSE r

\* lines 153-156: except Exception
ClassifyExcept(patterns, q, r) ==
  IF r.t = "raise" THEN Return(_fallback_classification(patterns, q)) ELSE r

\* a classifier that sends the request again when the first attempt raises
ChatCompletionRequestsRetry(llm) == IF llm.outcome = "raises" THEN 2 ELSE 1

\* chat-completion requests one classify_intent call issues (lines 125-133)
ChatCompletionRequests(llm) == 1

\* lines 103-106, before the try statement: info['examples'][0] of every flow
BuildPrompt(patterns) ==
  IF \E flow \in DOMAIN patterns : Len(patterns[flow].examples) = 0
    THEN Raise("IndexError", "list index out of range")
  ELSE Return([flow \in DOMAIN patterns |-> patterns[flow].examples[1]])

classify_intent(patterns, q, llm) ==
  IF BuildPrompt(patterns).t = "raise" THEN BuildPrompt(patterns)
  ELSE ClassifyExcept(patterns, q, ClassifyTry(patterns, q, llm))

----------------------------------------------------------------------------
(* FlowRouter.route, flow_router.py lines 185-226.                          *)

route(patterns, q, pair) ==
  LET flow_name == pair.flow
      confidence == pair.confidence
      known == flow_name \in DOMAIN patterns
  IN  [flow_name |-> flow_name,
       confidence |-> confidence,
       query |-> q,
       flow_info |->
         [description |-> IF known THEN patterns[flow_name].description ELSE "",
          keywords |-> IF known THEN patterns[flow_name].keywords ELSE <<>>,
          examples |-> IF known THEN patterns[flow_name].examples ELSE <<>>]]

----------------------------------------------------------------------------
(* FlowRouter.execute_flow, flow_router.py lines 228-273.                   *)

\* lines 244-258: the module and the name each branch imports and calls
ImportOf(flow_name) ==
  CASE flow_name = "campaign_setup_flow" ->
         [module |-> "flows.campaign_setup_flow", name |-> "run_campaign_setup_flow"]
    [] flow_name = "optimization_flow" ->
         [module |-> "flows.optimization_flow", name |-> "run_optimization_flow"]
    [] flow_name = "analytics_flow" ->
         [module |-> "flows.analytics_flow", name |-> "run_analytics_flow"]
    [] flow_name = "compliance_flow" ->
         [module |-> "flows.compliance_flow", name |-> "run_compliance_flow"]
    [] flow_name = "creative_flow" ->
         [module |-> "flows.creative_flow", name |-> "run_creative_flow"]
    [] OTHER -> None

\* the functions each flow module defines at top level
CampaignSetupFunctions == {"execute_campaign_setup_flow"}
OptimizationFunctions == {"run_optimization_flow"}
AnalyticsFunctions == {"run_analytics_query", "main"}
ComplianceFunctions == {"run_compliance_flow"}
CreativeFunctions == {"run_creative_flow"}

ModuleFunctions(module) ==
  CASE module = "flows.campaign_setup_flow" -> CampaignSetupFunctions
    [] module = "flows.optimization_flow" -> OptimizationFunctions
    [] module = "flows.analytics_flow" -> AnalyticsFunctions
    [] module = "flows.compliance_flow" -> ComplianceFunctions
    [] module = "flows.creative_flow" -> CreativeFunctions
    [] OTHER -> {}

\* the import statement of the selected branch (or the else branch, line 260):
\* the module itself may fail to load (env), the name may be missing
ImportEntry(flow_name, env) ==
  LET target == ImportOf(flow_name)
  IN  IF target = None THEN Raise("ValueError", "Unknown flow: " \o flow_name)
      ELSE IF env = "module_fails"
        THEN Raise("ModuleNotFoundError", "No module named 'crewai'")
      ELSE IF target.name \notin ModuleFunctions(target.module)
        THEN Raise("ImportError", "cannot import name '" \o target.name \o "'")
      ELSE Return(target.name)

ImportEnvs == {"ok", "module_fails"}

\* what an invoked entry point does: it returns a value or raises
FlowResults == {Str("report"), Str(""), None}
FlowErrors == {Raise("Exception", "MCP Error (-32000): not found"), Raise("ValueError", "")}
EntryOutcomes == {Return(v) : v \in FlowResults} \cup FlowErrors

\* lines 262-266
SuccessEnvelope(routing_result, flow_result) ==
  [routing |-> routing_result, result |-> flow_result, success |-> TRUE]

\* an error envelope that also carries a result member
ErrorEnvelopeWithResult(routing_result, e) ==
  [routing |-> routing_result, result |-> None, error |-> e.msg, success |-> FALSE]

\* lines 268-273: except Exception as e
ErrorEnvelope(routing_result, e) ==
  [routing |-> routing_result, error |-> e.msg, success |-> FALSE]

\* a handler that catches import failures only
ExecuteFinishImportOnly(routing_result, r) ==
  IF r.t = "raise" /\ r.type \in {"ImportError", "ModuleNotFoundError"}
    THEN Return(ErrorEnvelope(routing_result, r))
  ELSE IF r.t = "raise" THEN r
  ELSE Return(SuccessEnvelope(routing_result, r.v))

\* the outcome r of the try body (lines 243-266) to what execute_flow does
ExecuteFinish(routing_result, r) ==
  IF r.t = "raise" THEN Return(ErrorEnvelope(routing_result, r))
  ELSE Return(SuccessEnvelope(routing_result, r.v))

----------------------------------------------------------------------------
(* The optimization flow, flows/optimization_flow.py: run_optimization_flow *)
(* builds an OptimizationFlow and kicks it off; its four steps run one      *)
(* after the other, each receiving what the step before returned.  A Python *)
(* dict is a record; each crew's kickoff() is an input: it returns a        *)
(* CrewOutput or raises.                                                    *)

DefaultOrganizationId == 100048

EmptyDict == [k \in {} |-> None]

CrewOutput(raw) == [t |-> "crew_output", raw |-> raw]

\* str(result) of a CrewOutput, str(e) of an exception
StrOf(v) == IF v.t = "crew_output" THEN v.raw ELSE v.msg

CrewOutcomes == {Return(CrewOutput("3 strategies below target")),
                 Raise("Exception", "MCP Error (-32000): not found")}

\* what each of the three crews does when kicked off
CrewBehaviours == [analysis : CrewOutcomes, decision : CrewOutcomes, execution : CrewOutcomes]

\* class OptimizationState with the kickoff inputs, and nothing run yet
OptimizationState(nl_query, organization_id) ==
  [state |-> [nl_query |-> nl_query,
              organization_id |-> organization_id,
              performance_analysis |-> EmptyDict,
              optimization_decisions |-> EmptyDict,
              execution_results |-> EmptyDict,
              error |-> ""],
   out |-> None,
   kicked |-> <<>>]

receive_query(f) ==
  IF f.state.nl_query = ""
    THEN [f EXCEPT !.state.error = "No query provided", !.out = Str("error")]
  ELSE [f EXCEPT !.out = Str(f.state.nl_query)]

analyze_performance(f, crew) ==
  LET nl_query == f.out.v
      ran == [f EXCEPT !.kicked = Append(@, [crew |-> "performance_analyzer", query |-> nl_query])]
  IN  IF crew.t = "return"
        THEN LET analysis_output == [query |-> nl_query,
                                     organization_id |-> f.state.organization_id,
                                     analysis |-> StrOf(crew.v)]
             IN  [ran EXCEPT !.state.performance_analysis = analysis_output,
                             !.out = analysis_output]
      ELSE LET error_msg == "Performance analysis failed: " \o StrOf(crew)
           IN  [ran EXCEPT !.state.error = error_msg, !.out = [error |-> error_msg]]

\* a decision step that does not look at what the analysis returned
MakeDecisionsUnguarded(f, crew) ==
  LET ran == [f EXCEPT !.kicked = Append(@, [crew |-> "decision_maker",
                                             query |-> f.state.nl_query])]
  IN  IF crew.t = "return"
        THEN LET decisions_output == [query |-> f.state.nl_query,
                                      decisions |-> StrOf(crew.v)]
             IN  [ran EXCEPT !.state.optimization_decisions = decisions_output,
                             !.out = decisions_output]
      ELSE LET error_msg == "Decision making failed: " \o StrOf(crew)
           IN  [ran EXCEPT !.state.error = error_msg, !.out = [error |-> error_msg]]

make_decisions(f, crew) ==
  IF "error" \in DOMAIN f.out THEN f
  ELSE
    LET ran == [f EXCEPT !.kicked = Append(@, [crew |-> "decision_maker",
                                               query |-> f.state.nl_query])]
    IN  IF crew.t = "return"
          THEN LET decisions_output == [query |-> f.state.nl_query,
                                        decisions |-> StrOf(crew.v)]
               IN  [ran EXCEPT !.state.optimization_decisions = decisions_output,
                               !.out = decisions_output]
        ELSE LET error_msg == "Decision making failed: " \o StrOf(crew)
             IN  [ran EXCEPT !.state.error = error_msg, !.out = [error |-> error_msg]]

execute_optimizations(f, crew) ==
  IF "error" \in DOMAIN f.out THEN f
  ELSE
    LET ran == [f EXCEPT !.kicked = Append(@, [crew |-> "execution_agent",
                                               query |-> f.state.nl_query])]
    IN  IF crew.t = "return"
          THEN LET execution_output == [query |-> f.state.nl_query,
                                        execution |-> StrOf(crew.v)]
               IN  [ran EXCEPT !.state.execution_results = execution_output,
                               !.out = execution_output]
        ELSE LET error_msg == "Execution failed: " \o StrOf(crew)
             IN  [ran EXCEPT !.state.error = error_msg, !.out = [error |-> error_msg]]

generate_report(f) ==
  [f EXCEPT !.out = [query |-> f.state.nl_query,
                     organization_id |-> f.state.organization_id,
                     performance_analysis |-> f.state.performance_analysis,
                     optimization_decisions |-> f.state.optimization_decisions,
                     execution_results |-> f.state.execution_results,
                     status |-> IF f.state.error # "" THEN "error" ELSE "success",
                     error |-> IF f.state.error # "" THEN Str(f.state.error) ELSE None]]

\* the flow object after kickoff: every step has run
OptimizationFlowKickoff(nl_query, organization_id, crews) ==
  generate_report(
    execute_optimizations(
      make_decisions(
        analyze_performance(
          receive_query(OptimizationState(nl_query, organization_id)),
          crews.analysis),
        crews.decision),
      crews.execution))

run_optimization_flow(nl_query, crews) ==
  Return(OptimizationFlowKickoff(nl_query, DefaultOrganizationId, crews).out)

----------------------------------------------------------------------------
(* FlowRouter.__init__ and create_router, flow_router.py lines 79-90 and    *)
(* 285-295; list_flows, lines 275-282.  os.getenv gives None for a variable *)
(* that is not set.                                                         *)

\* bool(v) of an Optional[str]
Truthy(v) == v.t = "str" /\ v.v # ""

\* a or b
PyOr(a, b) == IF Truthy(a) THEN a ELSE b

ApiKeyArguments == {None, Str(""), Str("sk-argument")}
ApiKeyEnvironments == {None, Str(""), Str("sk-environment")}

KeyRequired ==
  "OpenAI API key is required. Set OPENAI_API_KEY environment variable or pass it to the constructor."

\* a constructor that reads the environment first
FlowRouterInitEnvironFirst(openai_api_key, env) ==
  LET api_key == PyOr(env, openai_api_key)
  IN  IF ~Truthy(api_key) THEN Raise("ValueError", KeyRequired)
      ELSE Return([api_key |-> api_key.v, client |-> [api_key |-> api_key.v]])

\* FlowRouter(openai_api_key) with OPENAI_API_KEY being env
FlowRouterInit(openai_api_key, env) ==
  LET api_key == PyOr(openai_api_key, env)
  IN  IF ~Truthy(api_key) THEN Raise("ValueError", KeyRequired)
      ELSE Return([api_key |-> api_key.v, client |-> [api_key |-> api_key.v]])

create_router(openai_api_key, env) == FlowRouterInit(openai_api_key, env)

\* a list_flows that returns the descriptions only
ListFlowsDescriptions(patterns) ==
  [flow \in DOMAIN patterns |-> [description |-> patterns[flow].description]]

\* list_flows returns the class attribute itself
list_flows(patterns) == patterns

\* What a caller can do to a list it was handed: the lists inside a route
\* result's flow_info and inside the dict list_flows returns are the lists
\* of FLOW_PATTERNS themselves (lines 215-217 and 282 copy nothing).
ListFields == {"keywords", "examples"}

\* the flows whose lists the caller touches
ModifiedFlows == {"campaign_setup_flow", "optimization_flow"}

Modifications ==
  [flow : ModifiedFlows, field : ListFields, method : {"clear", "append"}]

\* list.clear() / list.append("ads") on patterns[m.flow][m.field]
ApplyModification(patterns, m) ==
  [patterns EXCEPT ![m.flow][m.field] =
     IF m.method = "clear" THEN <<>> ELSE Append(@, "ads")]

----------------------------------------------------------------------------
(* The MCP client, src/agents/crewai-flows/shared/mcp_client.py.  A JSON    *)
(* object is a record tagged "object" whose members may be Absent, a JSON   *)
(* array a record tagged "list" with its items.  An exchange is what the    *)
(* transport and the server do with one POST.                               *)

List(items) == [t |-> "list", items |-> items]
Bool(b) == [t |-> "bool", v |-> b]

Digits == "0123456789"

\* f"{n}" of an int
RECURSIVE NatToStr(_)
NatToStr(n) ==
  IF n < 10 THEN SubSeq(Digits, n + 1, n + 1)
  ELSE NatToStr(n \div 10) \o SubSeq(Digits, (n % 10) + 1, (n % 10) + 1)

IntToStr(n) == IF n < 0 THEN "-" \o NatToStr(0 - n) ELSE NatToStr(n)

IsDigit(c) == \E d \in 1..10 : SubSeq(Digits, d, d) = c

DigitValue(c) == (CHOOSE d \in 1..10 : SubSeq(Digits, d, d) = c) - 1

AllDigits(s) == Len(s) > 0 /\ \A i \in 1..Len(s) : IsDigit(SubSeq(s, i, i))

RECURSIVE StrToNat(_)
StrToNat(s) ==
  IF Len(s) = 0 THEN 0
  ELSE 10 * StrToNat(SubSeq(s, 1, Len(s) - 1)) + DigitValue(SubSeq(s, Len(s), Len(s)))

\* the texts a tool result carries in the model
Texts == {"42", "-7", "007", "null", "[]", "\"ok\"", "3 campaigns found", ""}

\* json.loads(text), for the texts above: a number, null, an empty array or
\* a string without escapes; anything else is not JSON
JsonLoads(text) ==
  LET n == Len(text)
      unsigned == IF n > 0 /\ SubSeq(text, 1, 1) = "-" THEN SubSeq(text, 2, n) ELSE text
  IN  IF text = "null" THEN Return(JsonNull)
      ELSE IF text = "[]" THEN Return(List(<<>>))
      ELSE IF AllDigits(unsigned) /\ (Len(unsigned) = 1 \/ SubSeq(unsigned, 1, 1) # "0")
        THEN Return(Num(<<IF unsigned = text THEN StrToNat(unsigned)
                          ELSE 0 - StrToNat(unsigned), 1>>))
      ELSE IF n >= 2 /\ SubSeq(text, 1, 1) = "\"" /\ SubSeq(text, n, n) = "\""
              /\ \A i \in 2..(n - 1) : SubSeq(text, i, i) \notin {"\"", "\\"}
        THEN Return(Str(SubSeq(text, 2, n - 1)))
      ELSE Raise("json.JSONDecodeError", "Expecting value")

\* the first element of a content array
ContentElements ==
  {Str("3 campaigns found")}
    \cup {[t |-> "object", type |-> Str("text"), text |-> tx] :
            tx \in {Absent, JsonNull, Num(<<5, 1>>)} \cup {Str(s) : s \in Texts}}
    \cup {[t |-> "object", type |-> ty, text |-> Str("42")] :
            ty \in {Absent, JsonNull, Str("image")}}

Contents ==
  {Absent, JsonNull, Str("42"), List(<<>>)}
    \cup {List(<<e>>) : e \in ContentElements}
    \cup {List(<<[t |-> "object", type |-> Str("image"), text |-> Absent],
                 [t |-> "object", type |-> Str("text"), text |-> Str("42")]>>)}

ToolLists ==
  {JsonNull, List(<<>>), List(<<[t |-> "object", name |-> Str("find_campaigns")]>>)}

\* the "result" member of a response
ResultMembers ==
  {Absent, JsonNull, Str("ok"), Num(<<7, 1>>), List(<<>>)}
    \cup {[t |-> "object", content |-> c, tools |-> Absent] : c \in Contents}
    \cup {[t |-> "object", content |-> Absent, tools |-> tl] : tl \in ToolLists}

\* the "error" member of a response
ErrorMembers ==
  {Absent, JsonNull, Str("boom")}
    \cup {[t |-> "object", code |-> c, message |-> m] :
            c \in {Absent, Num(<<-32601, 1>>)}, m \in {Absent, Str("Tool not found")}}

\* response bodies that are JSON
Bodies ==
  {List(<<>>), Num(<<1, 1>>)}
    \cup {[t |-> "object", error |-> Absent, result |-> r] : r \in ResultMembers}
    \cup {[t |-> "object", error |-> e, result |-> r] :
            e \in ErrorMembers, r \in {Absent, Str("ok")}}

Exchanges ==
  {[kind |-> "connection_error"],                 \* requests.post raises ConnectionError
   [kind |-> "timeout"],                          \* requests.post raises Timeout
   [kind |-> "http_error", status |-> 500]}       \* raise_for_status raises HTTPError
    \cup {[kind |-> "ok", json |-> [t |-> "invalid"], decodeError |-> d] :
            d \in {"requests.JSONDecodeError", "json.JSONDecodeError"}}
    \cup {[kind |-> "ok", json |-> b, decodeError |-> "none"] : b \in Bodies}

ToolNames == {"find_campaigns", "invalid_tool_name"}

RaiseFrom(type, msg, e) == [t |-> "raise", type |-> type, msg |-> msg, context |-> e]

\* the subclasses of requests.exceptions.RequestException that occur; the
\* JSONDecodeError of requests >= 2.27 is one of them (and is a
\* json.JSONDecodeError too), the one of older releases is not
IsRequestException(type) ==
  type \in {"ConnectionError", "Timeout", "HTTPError", "requests.JSONDecodeError"}

\* an id generator that returns the counter before advancing it
GetNextRequestIdPost(rid) == [request_id |-> rid + 1, returned |-> rid]

\* lines 26-29
_get_next_request_id(rid) == [request_id |-> rid + 1, returned |-> rid + 1]

\* a client that posts again when the transport failed
HttpPostsRetry(x) == IF x.kind # "ok" THEN 2 ELSE 1

\* requests.post calls of one call_tool (lines 67-72) or list_tools
\* (lines 126-130) invocation, whatever the exchange
HttpPosts(x) == 1

\* requests.post, raise_for_status and response.json(): lines 67-74, 126-132
Transport(x) ==
  IF x.kind = "connection_error" THEN Raise("ConnectionError", "Connection refused")
  ELSE IF x.kind = "timeout" THEN Raise("Timeout", "Read timed out.")
  ELSE IF x.kind = "http_error"
    THEN Raise("HTTPError", IntToStr(x.status) \o " Server Error")
  ELSE IF x.json.t = "invalid" THEN Raise(x.decodeError, "Expecting value")
  ELSE Return(x.json)

\* lines 83-97: the content array format
Unwrap(result) ==
  IF result.t = "object" /\ result.content # Absent
    THEN LET content == result.content
         IN  IF content.t = "list" /\ Len(content.items) > 0
               THEN LET first == content.items[1]
                    IN  IF first.t # "object"
                          THEN Raise("AttributeError", "object has no attribute 'get'")
                        ELSE IF DictGet(first, "type", None) = Str("text")
                          THEN LET text_content == DictGet(first, "text", Str(""))
                               IN  IF text_content.t # "str"
                                     THEN Raise("TypeError",
                                                "the JSON object must be str, bytes or bytearray")
                                   ELSE IF JsonLoads(text_content.v).t = "raise"
                                     THEN Return(text_content)
                                   ELSE JsonLoads(text_content.v)
                        ELSE Return(result)
             ELSE Return(result)
  ELSE Return(result)

\* the two tests of lines 77 and 83 in the other order
CallToolDataResultFirst(data) ==
  IF data.t = "num" THEN Raise("TypeError", "argument of type 'int' is not iterable")
  ELSE IF data.t = "list" THEN Return(None)
  ELSE IF data.result # Absent THEN Unwrap(data.result)
  ELSE IF data.error # Absent
    THEN IF data.error.t # "object"
           THEN Raise("AttributeError", "object has no attribute 'get'")
         ELSE Raise("Exception",
                    "MCP Error (" \o IntToStr(DictGet(data.error, "code", Num(<<-1, 1>>)).v[1])
                      \o "): " \o DictGet(data.error, "message", Str("Unknown error")).v)
  ELSE Return(None)

\* lines 76-99: what call_tool does with the decoded response
CallToolData(data) ==
  IF data.t = "num" THEN Raise("TypeError", "argument of type 'int' is not iterable")
  ELSE IF data.t = "list" THEN Return(None)
  ELSE IF data.error # Absent
    THEN IF data.error.t # "object"
           THEN Raise("AttributeError", "object has no attribute 'get'")
         ELSE Raise("Exception",
                    "MCP Error (" \o IntToStr(DictGet(data.error, "code", Num(<<-1, 1>>)).v[1])
                      \o "): " \o DictGet(data.error, "message", Str("Unknown error")).v)
  ELSE IF data.result # Absent THEN Unwrap(data.result)
  ELSE Return(None)

\* lines 101-104: the except clauses of call_tool
CallToolExcept(tool_name, r) ==
  IF r.t = "raise" /\ IsRequestException(r.type)
    THEN RaiseFrom("Exception",
                   "HTTP Error calling MCP tool '" \o tool_name \o "': " \o r.msg, r)
  ELSE IF r.t = "raise" /\ r.type = "json.JSONDecodeError"
    THEN RaiseFrom("Exception", "Invalid JSON response from MCP server: " \o r.msg, r)
  ELSE r

call_tool(tool_name, x) ==
  CallToolExcept(tool_name,
                 IF Transport(x).t = "raise" THEN Transport(x)
                 ELSE CallToolData(Transport(x).v))

\* lines 134-140: what list_tools does with the decoded response
ListToolsData(data) ==
  IF data.t = "num" THEN Raise("TypeError", "argument of type 'int' is not iterable")
  ELSE IF data.t = "list" THEN Return(List(<<>>))
  ELSE IF data.error # Absent
    THEN IF data.error.t # "object"
           THEN Raise("TypeError", "indices must be integers")
         ELSE IF data.error.message = Absent THEN Raise("KeyError", "'message'")
         ELSE Raise("Exception", "MCP Error: " \o data.error.message.v)
  ELSE IF data.result = Absent THEN Return(List(<<>>))
  ELSE IF data.result.t \in {"none", "num"}
    THEN Raise("TypeError", "argument is not iterable")
  ELSE IF data.result.t = "object" /\ data.result.tools # Absent
    THEN Return(data.result.tools)
  ELSE Return(List(<<>>))

\* lines 142-143: the except clause of list_tools
ListToolsExcept(r) ==
  IF r.t = "raise" /\ IsRequestException(r.type)
    THEN RaiseFrom("Exception", "HTTP Error listing tools: " \o r.msg, r)
  ELSE r

list_tools(x) ==
  ListToolsExcept(IF Transport(x).t = "raise" THEN Transport(x)
                  ELSE ListToolsData(Transport(x).v))

\* a ping that lets the errors of the server through
PingTransportOnly(x) ==
  IF list_tools(x).t = "raise"
    THEN IF "context" \in DOMAIN list_tools(x) THEN Return(Bool(FALSE)) ELSE list_tools(x)
  ELSE Return(Bool(TRUE))

\* lines 145-157
ping(x) == IF list_tools(x).t = "raise" THEN Return(Bool(FALSE)) ELSE Return(Bool(TRUE))

\* what the client method o returns or raises after the exchange x
ClientReturn(o, tool_name, x) ==
  IF o = "call_tool" THEN call_tool(tool_name, x)
  ELSE IF o = "list_tools" THEN list_tools(x)
  ELSE ping(x)

----------------------------------------------------------------------------
(* The tool catalog, src/agents/crewai-flows/shared/mcp_tools.py.           *)

\* the dict literal of wrap_mcp_tools, lines 79-315: each key with the
\* tool_name passed to create_tool
ToolLiteral ==
  <<<<"find_campaigns", "find_campaigns">>,
    <<"get_campaign_info", "get_campaign_info">>,
    <<"create_campaign", "create_campaign">>,
    <<"update_campaign", "update_campaign">>,
    <<"delete_campaign", "delete_campaign">>,
    <<"update_campaign_budget", "update_campaign_budget">>,
    <<"find_strategies", "find_strategies">>,
    <<"get_strategy_info", "get_strategy_info">>,
    <<"create_strategy", "create_strategy">>,
    <<"update_strategy", "update_strategy">>,
    <<"delete_strategy", "delete_strategy">>,
    <<"find_audience_segments", "find_audience_segments">>,
    <<"get_audience_segment_info", "get_audience_segment_info">>,
    <<"create_audience_segment", "create_audience_segment">>,
    <<"update_audience_segment", "update_audience_segment">>,
    <<"delete_audience_segment", "delete_audience_segment">>,
    <<"find_creatives", "find_creatives">>,
    <<"get_creative_info", "get_creative_info">>,
    <<"create_creative", "create_creative">>,
    <<"update_creative", "update_creative">>,
    <<"delete_creative", "delete_creative">>,
    <<"find_organizations", "find_organizations">>,
    <<"get_organization_info", "get_organization_info">>,
    <<"find_users", "find_users">>, <<"get_user_info", "get_user_info">>,
    <<"get_user_permissions", "get_user_permissions">>,
    <<"find_supply_sources", "find_supply_sources">>,
    <<"get_supply_source_info", "get_supply_source_info">>>>

\* lines 65-83 of tests/test_mcp_tools.py and the like: the names each
\* test_*_tools_exist requires
RequiredTools ==
  [campaign |->
       {"find_campaigns", "get_campaign_info", "create_campaign",
        "update_campaign", "delete_campaign", "update_campaign_budget"},
   strategy |->
       {"find_strategies", "get_strategy_info", "create_strategy",
        "update_strategy", "delete_strategy"},
   audience |->
       {"find_audience_segments", "get_audience_segment_info",
        "create_audience_segment", "update_audience_segment",
        "delete_audience_segment"},
   creative |->
       {"find_creatives", "get_creative_info", "create_creative",
        "update_creative", "delete_creative"},
   user |->
       {"find_organizations", "get_organization_info", "find_users",
        "get_user_info", "get_user_permissions"},
   supply |->
       {"find_supply_sources", "get_supply_source_info"}]

\* the dict literal of get_tools_by_category, lines 330-373
CategoryLiteral ==
  [campaign_management |->
       <<"find_campaigns", "get_campaign_info", "create_campaign",
         "update_campaign", "delete_campaign", "update_campaign_budget">>,
   strategy_management |->
       <<"find_strategies", "get_strategy_info", "create_strategy",
         "update_strategy", "delete_strategy">>,
   audience_management |->
       <<"find_audience_segments", "get_audience_segment_info",
         "create_audience_segment", "update_audience_segment",
         "delete_audience_segment">>,
   creative_management |->
       <<"find_creatives", "get_creative_info", "create_creative",
         "update_creative", "delete_creative">>,
   organization_management |->
       <<"find_organizations", "get_organization_info">>,
   user_management |->
       <<"find_users", "get_user_info", "get_user_permissions">>,
   supply_management |->
       <<"find_supply_sources", "get_supply_source_info">>]

\* a closure that sees the loop's last name instead of its own
CreateToolLateBinding(tool_name) ==
  [name |-> tool_name, func |-> [tool_name |-> ToolLiteral[Len(ToolLiteral)][2]]]

\* MCPToolWrapper.create_tool, lines 47-62: the Tool, and the tool_name that
\* the closure made by create_tool_func (lines 23-45) holds
create_tool(tool_name) == [name |-> tool_name, func |-> [tool_name |-> tool_name]]

\* lines 65-317: nothing is sent; MCPClient.__init__ sets request_id = 0
\* (LastIndex: in a dict literal a later entry replaces an earlier one)
wrap_mcp_tools(server_url, api_key) ==
  LET LastIndex(key) ==
        CHOOSE i \in 1..Len(ToolLiteral) :
          /\ ToolLiteral[i][1] = key
          /\ \A j \in (i + 1)..Len(ToolLiteral) : ToolLiteral[j][1] # key
  IN  Return([key \in {ToolLiteral[i][1] : i \in 1..Len(ToolLiteral)} |->
                create_tool(ToolLiteral[LastIndex(key)][2])])

\* a grouping that lists the user tools under both of the last two headings
GetToolsByCategoryUsersTwice(tools) ==
  IF \E c \in DOMAIN CategoryLiteral : \E i \in 1..Len(CategoryLiteral[c]) :
       CategoryLiteral[c][i] \notin DOMAIN tools
    THEN Raise("KeyError", "tool")
  ELSE Return([c \in DOMAIN CategoryLiteral |->
                 [i \in 1..Len(CategoryLiteral[IF c = "organization_management"
                                               THEN "user_management" ELSE c]) |->
                    tools[CategoryLiteral[IF c = "organization_management"
                                          THEN "user_management" ELSE c][i]]]])

\* lines 320-373: tools[...] raises KeyError for a name that is not a key
get_tools_by_category(tools) ==
  IF \E c \in DOMAIN CategoryLiteral : \E i \in 1..Len(CategoryLiteral[c]) :
       CategoryLiteral[c][i] \notin DOMAIN tools
    THEN Raise("KeyError", "tool")
  ELSE Return([c \in DOMAIN CategoryLiteral |->
                 [i \in 1..Len(CategoryLiteral[c]) |-> tools[CategoryLiteral[c][i]]]])

\* tool_func, lines 33-43, given what call_tool did.  PyStr is str(result)
\* of a result that is not a dict or a list; json.dumps(result, indent=2)
\* is not spelled out, it is the JSON text of the value
tool_func(tool_name, r) ==
  LET PyStr(v) ==
        IF v.t = "none" THEN "None"
        ELSE IF v.t = "num" THEN IntToStr(v.v[1])
        ELSE IF v.t = "bool" THEN (IF v.v THEN "True" ELSE "False")
        ELSE v.v
      JsonDumps(v) == [t |-> "json_text", value |-> v]
  IN  IF r.t = "raise"
        THEN Return(Str("Error executing " \o tool_name \o ": " \o r.msg))
      ELSE IF r.v.t \in {"object", "list"} THEN Return(JsonDumps(r.v))
      ELSE Return(Str(PyStr(r.v)))

\* the call chains that share a catalog
Threads == {"a", "b"}

IdleThread == [pc |-> "idle", key |-> "", tool |-> "", tmp |-> 0, x |-> None, outcome |-> None]

\* what happens to the requests of the tools
CatalogExchanges ==
  {x \in Exchanges :
     \/ x.kind = "connection_error"
     \/ /\ x.kind = "ok"
        /\ x.json \in
             {[t |-> "object", error |-> Absent, result |-> Absent],
              [t |-> "object", error |-> Absent,
               result |-> [t |-> "object", tools |-> Absent,
                           content |-> List(<<[t |-> "object", type |-> Str("text"),
                                               text |-> Str("42")]>>)]],
              [t |-> "object", result |-> Absent,
               error |-> [t |-> "object", code |-> Num(<<-32601, 1>>),
                          message |-> Str("Tool not found")]]}}

----------------------------------------------------------------------------
(* The interactive session, src/agents/crewai-flows/main.py lines 158-256.  *)

\* str.strip()
RECURSIVE Strip(_)
Strip(s) ==
  LET Whitespace == {" ", "\t", "\n"}
  IN  IF Len(s) = 0 THEN s
      ELSE IF SubSeq(s, 1, 1) \in Whitespace
        THEN (IF Len(s) = 1 THEN "" ELSE Strip(SubSeq(s, 2, Len(s))))
      ELSE IF SubSeq(s, Len(s), Len(s)) \in Whitespace THEN Strip(SubSeq(s, 1, Len(s) - 1))
      ELSE s

\* the branches of lines 229-244 with the commands compared as typed
LineActionCaseSensitive(line) ==
  LET q == Strip(line)
  IN  IF q = "" THEN "continue"
      ELSE IF q \in {"exit", "quit"} THEN "break"
      ELSE IF q \in {"help", "examples", "flows"} THEN "command"
      ELSE "execute"

\* lines 226-247: what the loop body does with the line input() returned
LineAction(line) ==
  LET q == Strip(line)
  IN  IF q = "" THEN "continue"
      ELSE IF lower(q) \in {"exit", "quit"} THEN "break"
      ELSE IF lower(q) \in {"help", "examples", "flows"} THEN "command"
      ELSE "execute"

\* execute_query, lines 158-200
execute_query(r) == IF r.t = "raise" THEN Bool(FALSE) ELSE Bool(r.v.success)

----------------------------------------------------------------------------
(* The router as a state machine: one public call at a time.                *)

\* no router call in progress
CallIdle ==
  /\ op = "none"
  /\ pc = "idle"
  /\ query = ""
  /\ classifyCalls = <<>>
  /\ llmCalls = 0
  /\ llmReply = None
  /\ classification = None
  /\ repeated = None
  /\ routing = None
  /\ importEnv = None
  /\ entryCalls = <<>>
  /\ entryOutcome = None
  /\ envelope = None
  /\ propagated = None
  /\ listed = None

\* MCPClient.__init__, mcp_client.py lines 14-24
ClientInit ==
  /\ request_id = 0
  /\ sent = <<>>
  /\ operations = 0
  /\ clientOp = "none"
  /\ calledTool = None
  /\ clientPc = "idle"
  /\ posts = 0
  /\ exchange = None
  /\ clientOutcome = None

\* no catalog built, no flow started, no session running
RestIdle ==
  /\ catalog = None
  /\ byCategory = None
  /\ threads = [t \in Threads |-> IdleThread]
  /\ flowRun = None
  /\ steps = <<>>
  /\ sessionPc = "off"
  /\ consumed = <<>>
  /\ eof = FALSE
  /\ dispatched = <<>>
  /\ reported = None

\* a router built by create_router() from the environment, and a new client
Init ==
  /\ CallIdle
  /\ environ = Str("sk-environment")
  /\ construction = [via |-> "create_router", openai_api_key |-> None,
                     outcome |-> create_router(None, environ)]
  /\ router = construction.outcome.v
  /\ flowTable = FLOW_PATTERNS
  /\ modifications = 0
  /\ ClientInit
  /\ RestIdle

\* router._fallback_classification(q), called directly
CallFallback(q) ==
  /\ pc = "idle"
  /\ router # None
  /\ op' = "fallback"
  /\ query' = q
  /\ classification' = _fallback_classification(flowTable, q)
  /\ pc' = "done"
  /\ UNCHANGED <<classifyCalls, llmCalls, llmReply, repeated, routing, importEnv,
                 entryCalls, entryOutcome, envelope, propagated>>
  /\ UNCHANGED <<listed, processVars, clientVars, restVars>>

\* the same call once more, with the same query
RepeatFallback ==
  /\ pc = "done"
  /\ op = "fallback"
  /\ repeated = None
  /\ repeated' = classification
  /\ classification' = _fallback_classification(flowTable, query)
  /\ UNCHANGED <<op, pc, query, classifyCalls, llmCalls, llmReply, routing,
                 importEnv, entryCalls, entryOutcome, envelope, propagated>>
  /\ UNCHANGED <<listed, processVars, clientVars, restVars>>

\* classify_intent(q), route(q) or execute_flow(q) is entered
Receive(o, q) ==
  /\ pc = "idle"
  /\ router # None
  /\ op' = o
  /\ query' = q
  /\ pc' = "received"
  /\ UNCHANGED <<classifyCalls, llmCalls, llmReply, classification, repeated, routing,
                 importEnv, entryCalls, entryOutcome, envelope, propagated>>
  /\ UNCHANGED <<listed, processVars, clientVars, restVars>>

\* classify_intent runs (route line 206, or called directly) with the LLM
\* behaving as llm; route then builds its result (lines 209-226)
Classify(llm) ==
  /\ pc = "received"
  /\ classifyCalls' = Append(classifyCalls, query)
  /\ IF BuildPrompt(flowTable).t = "raise"
     THEN UNCHANGED <<llmCalls, llmReply>>
     ELSE /\ llmCalls' = llmCalls + ChatCompletionRequests(llm)
          /\ llmReply' = llm
  /\ LET r == classify_intent(flowTable, query, llm)
     IN  IF r.t = "raise"
         THEN /\ propagated' = r
              /\ pc' = "done"
              /\ UNCHANGED <<classification, routing>>
         ELSE /\ classification' = r.v
              /\ routing' = IF op = "classify" THEN routing
                            ELSE route(flowTable, query, r.v)
              /\ pc' = IF op = "execute" THEN "classified" ELSE "done"
              /\ UNCHANGED propagated
  /\ UNCHANGED <<op, query, repeated, importEnv, entryCalls, entryOutcome, envelope>>
  /\ UNCHANGED <<listed, processVars, clientVars, restVars>>

\* execute_flow lines 240-258: the branch for routing_result["flow_name"]
\* runs its import statement and, if that succeeds, calls the entry point
\* with the query
Dispatch(env) ==
  /\ pc = "classified"
  /\ importEnv' = Str(env)
  /\ LET imported == ImportEntry(routing.flow_name, env)
     IN  entryCalls' = IF imported.t = "raise" THEN entryCalls
                       ELSE Append(entryCalls, [name |-> imported.v, arg |-> query])
  /\ pc' = "executing"
  /\ UNCHANGED <<op, query, classifyCalls, llmCalls, llmReply, classification, repeated,
                 routing, entryOutcome, envelope, propagated>>
  /\ UNCHANGED <<listed, processVars, clientVars, restVars>>

\* execute_flow leaves its try statement with the outcome r
Leave(r) ==
  /\ IF r.t = "raise"
     THEN /\ propagated' = r
          /\ UNCHANGED envelope
     ELSE /\ envelope' = r.v
          /\ UNCHANGED propagated
  /\ pc' = "done"
  /\ UNCHANGED <<op, query, classifyCalls, llmCalls, llmReply, classification, repeated,
                 routing, importEnv, entryCalls>>
  /\ UNCHANGED <<listed, processVars, clientVars, restVars>>

\* the import statement (or the else branch) raised: lines 268-273
FailImport ==
  /\ pc = "executing"
  /\ entryCalls = <<>>
  /\ Leave(ExecuteFinish(routing, ImportEntry(routing.flow_name, importEnv.v)))
  /\ UNCHANGED entryOutcome

\* the entry point returns or raises; execute_flow builds the envelope
Finish(outcome) ==
  /\ pc = "executing"
  /\ entryCalls # <<>>
  /\ entryOutcome' = outcome
  /\ Leave(ExecuteFinish(routing, outcome))

\* the entry point is run_optimization_flow and its crews behave as crews;
\* execute_flow builds the envelope from the report
FinishOptimization(crews) ==
  /\ pc = "executing"
  /\ entryCalls # <<>>
  /\ entryCalls[1].name = "run_optimization_flow"
  /\ entryOutcome' = run_optimization_flow(entryCalls[1].arg, crews)
  /\ Leave(ExecuteFinish(routing, run_optimization_flow(entryCalls[1].arg, crews)))

\* router.list_flows()
ListFlows ==
  /\ pc = "idle"
  /\ router # None
  /\ op' = "list_flows"
  /\ listed' = list_flows(flowTable)
  /\ pc' = "done"
  /\ UNCHANGED <<query, classifyCalls, llmCalls, llmReply, classification, repeated,
                 routing, importEnv, entryCalls, entryOutcome, envelope, propagated>>
  /\ UNCHANGED <<processVars, clientVars, restVars>>

\* the caller lets go of what the call returned
Drop ==
  /\ op' = "none"
  /\ pc' = "idle"
  /\ query' = ""
  /\ classifyCalls' = <<>>
  /\ llmCalls' = 0
  /\ llmReply' = None
  /\ classification' = None
  /\ repeated' = None
  /\ routing' = None
  /\ importEnv' = None
  /\ entryCalls' = <<>>
  /\ entryOutcome' = None
  /\ envelope' = None
  /\ propagated' = None
  /\ listed' = None

\* the call has returned; the router holds no state of it
Forget ==
  /\ pc = "done"
  /\ Drop
  /\ UNCHANGED <<processVars, clientVars, restVars>>

Next ==
  \/ \E q \in Queries : CallFallback(q)
  \/ RepeatFallback
  \/ \E o \in {"classify", "route", "execute"}, q \in Queries : Receive(o, q)
  \/ \E llm \in LLMBehaviours : Classify(llm)
  \/ \E env \in ImportEnvs : Dispatch(env)
  \/ FailImport
  \/ \E outcome \in EntryOutcomes : Finish(outcome)
  \/ \E crews \in CrewBehaviours : FinishOptimization(crews)
  \/ ListFlows
  \/ Forget

Spec == Init /\ [][Next]_vars

----------------------------------------------------------------------------
(* The process around the router: the router is constructed, its calls are  *)
(* made, and the caller does what it likes with the values it gets back.    *)

MaxModifications == 1

ProcessQueries ==
  {"Create 10 holiday campaigns with $5000 budget each",
   "Identify underperforming ads",
   "Check user permissions"}

ProcessLLMBehaviours ==
  {[outcome |-> "raises"],
   [outcome |-> "text",
    parsed |-> [t |-> "object", flow |-> Str("optimization_flow"),
                confidence |-> Num(<<19, 20>>), reasoning |-> Reasoning]]}

InitProcess ==
  /\ CallIdle
  /\ environ \in ApiKeyEnvironments
  /\ construction = None
  /\ router = None
  /\ flowTable = FLOW_PATTERNS
  /\ modifications = 0
  /\ ClientInit
  /\ RestIdle

\* FlowRouter(openai_api_key) or create_router(openai_api_key)
Construct(via, openai_api_key) ==
  /\ router = None
  /\ LET r == IF via = "create_router" THEN create_router(openai_api_key, environ)
              ELSE FlowRouterInit(openai_api_key, environ)
     IN  /\ construction' = [via |-> via, openai_api_key |-> openai_api_key, outcome |-> r]
         /\ router' = IF r.t = "raise" THEN router ELSE r.v
  /\ UNCHANGED <<callVars, environ, flowTable, modifications, clientVars, restVars>>

\* the lists of the table the caller has in hand: those of the routed flow
\* after route or execute_flow, all of them after list_flows
InHand(m) ==
  \/ listed # None
  \/ routing # None /\ routing.flow_name = m.flow

\* the caller modifies a list it was handed and lets go of the value
ModifyReturned(m) ==
  /\ pc = "done"
  /\ InHand(m)
  /\ modifications < MaxModifications
  /\ flowTable' = ApplyModification(flowTable, m)
  /\ modifications' = modifications + 1
  /\ Drop
  /\ UNCHANGED <<environ, construction, router, clientVars, restVars>>

NextProcess ==
  \/ \E via \in {"FlowRouter", "create_router"}, k \in ApiKeyArguments : Construct(via, k)
  \/ \E q \in ProcessQueries : CallFallback(q)
  \/ RepeatFallback
  \/ \E o \in {"classify", "route", "execute"}, q \in ProcessQueries : Receive(o, q)
  \/ \E llm \in ProcessLLMBehaviours : Classify(llm)
  \/ \E env \in ImportEnvs : Dispatch(env)
  \/ FailImport
  \/ \E outcome \in EntryOutcomes : Finish(outcome)
  \/ \E crews \in CrewBehaviours : FinishOptimization(crews)
  \/ ListFlows
  \/ Forget
  \/ \E m \in Modifications : ModifyReturned(m)

SpecProcess == InitProcess /\ [][NextProcess]_vars

----------------------------------------------------------------------------
(* The MCP client as a state machine: one method at a time.                 *)

MaxRequests == 3

\* call_tool, list_tools or ping is entered: the payload takes the next id
\* and is POSTed (call_tool lines 57-72, list_tools lines 118-130)
Invoke(o, tool_name) ==
  /\ clientPc = "idle"
  /\ request_id < MaxRequests
  /\ clientOp' = o
  /\ calledTool' = IF o = "call_tool" THEN Str(tool_name) ELSE None
  /\ request_id' = _get_next_request_id(request_id).request_id
  /\ sent' = Append(sent, _get_next_request_id(request_id).returned)
  /\ operations' = operations + 1
  /\ posts' = 1
  /\ clientPc' = "posted"
  /\ UNCHANGED <<exchange, clientOutcome, callVars, processVars, restVars>>

\* the exchange x takes place and the method returns or raises; list_tools
\* passes no timeout to requests.post, so none expires there
Respond(x) ==
  /\ clientPc = "posted"
  /\ x.kind = "timeout" => clientOp = "call_tool"
  /\ exchange' = x
  /\ posts' = HttpPosts(x)
  /\ clientOutcome' = ClientReturn(clientOp, IF calledTool = None THEN "" ELSE calledTool.v, x)
  /\ clientPc' = "done"
  /\ UNCHANGED <<request_id, sent, operations, clientOp, calledTool, callVars, processVars, restVars>>

\* the server has accepted the connection and sends nothing
Stall ==
  /\ clientPc = "posted"
  /\ exchange' = [kind |-> "no_response"]
  /\ clientPc' = "waiting"
  /\ UNCHANGED <<request_id, sent, operations, clientOp, calledTool, posts, clientOutcome,
                 callVars, processVars, restVars>>

\* the timeout of the pending requests.post expires: it raises Timeout
Expire ==
  /\ clientPc = "waiting"
  /\ clientOp = "call_tool"
  /\ exchange' = [kind |-> "timeout"]
  /\ posts' = HttpPosts(exchange')
  /\ clientOutcome' = ClientReturn(clientOp, calledTool.v, exchange')
  /\ clientPc' = "done"
  /\ UNCHANGED <<request_id, sent, operations, clientOp, calledTool, callVars, processVars,
                 restVars>>

\* the caller has the outcome; the client keeps its counter
ClientForget ==
  /\ clientPc = "done"
  /\ clientOp' = "none"
  /\ calledTool' = None
  /\ clientPc' = "idle"
  /\ posts' = 0
  /\ exchange' = None
  /\ clientOutcome' = None
  /\ UNCHANGED <<request_id, sent, operations, callVars, processVars, restVars>>

NextClient ==
  \/ \E tool_name \in ToolNames : Invoke("call_tool", tool_name)
  \/ \E o \in {"list_tools", "ping"} : Invoke(o, "")
  \/ \E x \in Exchanges : Respond(x)
  \/ Stall
  \/ Expire
  \/ ClientForget

SpecClient == Init /\ [][NextClient]_vars

\* the client, the transport and the server keep taking the steps they can
SpecClientFair == SpecClient /\ WF_vars(NextClient)

----------------------------------------------------------------------------
(* The tool catalog in use: wrap_mcp_tools builds it with its own client,   *)
(* and call chains invoke its tools.  self.request_id += 1 reads the        *)
(* attribute and writes it back, and return self.request_id reads it again; *)
(* another call chain can run between any two of these.                     *)

\* tools = wrap_mcp_tools(server_url, api_key)
WrapMcpTools(server_url, api_key) ==
  /\ catalog = None
  /\ catalog' = wrap_mcp_tools(server_url, api_key)
  /\ request_id' = 0
  /\ sent' = <<>>
  /\ operations' = 0
  /\ UNCHANGED <<byCategory, threads, clientOp, calledTool, clientPc, posts, exchange,
                 clientOutcome, callVars, processVars, stepVars, sessionVars>>

\* get_tools_by_category(tools)
GetToolsByCategory ==
  /\ catalog # None
  /\ byCategory = None
  /\ byCategory' = get_tools_by_category(catalog.v)
  /\ UNCHANGED <<catalog, threads, callVars, processVars, clientVars, stepVars, sessionVars>>

\* the call chain t invokes tools[key].func(): tool_func calls call_tool with
\* the name its closure holds (mcp_tools.py line 36)
InvokeTool(t, key) ==
  /\ catalog # None
  /\ threads[t].pc = "idle"
  /\ operations < MaxRequests
  /\ operations' = operations + 1
  /\ threads' = [threads EXCEPT ![t] = [IdleThread EXCEPT !.pc = "load", !.key = key,
                                          !.tool = catalog.v[key].func.tool_name]]
  /\ UNCHANGED <<catalog, byCategory, request_id, sent, clientOp, calledTool, clientPc, posts,
                 exchange, clientOutcome, callVars, processVars, stepVars, sessionVars>>

\* mcp_client.py line 28, the read of self.request_id += 1
LoadRequestId(t) ==
  /\ threads[t].pc = "load"
  /\ threads' = [threads EXCEPT ![t].tmp = request_id, ![t].pc = "store"]
  /\ UNCHANGED <<catalog, byCategory, callVars, processVars, clientVars, stepVars, sessionVars>>

\* line 28, the write of self.request_id += 1
StoreRequestId(t) ==
  /\ threads[t].pc = "store"
  /\ request_id' = threads[t].tmp + 1
  /\ threads' = [threads EXCEPT ![t].tmp = 0, ![t].pc = "return"]
  /\ UNCHANGED <<catalog, byCategory, sent, operations, clientOp, calledTool, clientPc, posts,
                 exchange, clientOutcome, callVars, processVars, stepVars, sessionVars>>

\* line 29 reads self.request_id for the payload's id, and the payload is
\* POSTed (lines 57-72)
PostRequest(t) ==
  /\ threads[t].pc = "return"
  /\ sent' = Append(sent, request_id)
  /\ threads' = [threads EXCEPT ![t].pc = "posted"]
  /\ UNCHANGED <<catalog, byCategory, request_id, operations, clientOp, calledTool, clientPc,
                 posts, exchange, clientOutcome, callVars, processVars, stepVars, sessionVars>>

\* the exchange x takes place; call_tool returns or raises into tool_func,
\* which returns to the call chain
ToolRespond(t, x) ==
  /\ threads[t].pc = "posted"
  /\ threads' = [threads EXCEPT ![t].pc = "done", ![t].x = x,
                                ![t].outcome = tool_func(threads[t].tool,
                                                         call_tool(threads[t].tool, x))]
  /\ UNCHANGED <<catalog, byCategory, callVars, processVars, clientVars, stepVars, sessionVars>>

\* the call chain goes on with what the tool gave it
ToolReturn(t) ==
  /\ threads[t].pc = "done"
  /\ threads' = [threads EXCEPT ![t] = IdleThread]
  /\ UNCHANGED <<catalog, byCategory, callVars, processVars, clientVars, stepVars, sessionVars>>

NextCatalog ==
  \/ \E server_url \in {"", "https://mediamath-mcp-mock-two.vercel.app/api/message"},
          api_key \in {"", "mcp_mock_2025_hypermindz_44b87c1d20ed"} :
       WrapMcpTools(server_url, api_key)
  \/ GetToolsByCategory
  \/ \E t \in Threads, key \in {"find_campaigns", "get_user_permissions"} : InvokeTool(t, key)
  \/ \E t \in Threads : LoadRequestId(t)
  \/ \E t \in Threads : StoreRequestId(t)
  \/ \E t \in Threads : PostRequest(t)
  \/ \E t \in Threads, x \in CatalogExchanges : ToolRespond(t, x)
  \/ \E t \in Threads : ToolReturn(t)

SpecCatalog == Init /\ [][NextCatalog]_vars

----------------------------------------------------------------------------
(* A run of the optimization flow, step by step: flow.kickoff runs the      *)
(* @start method and then each @listen method once the method it listens to *)
(* has returned, passing that method's return value.                        *)

\* run_optimization_flow lines 296-306
StartFlow(nl_query) ==
  /\ flowRun = None
  /\ flowRun' = OptimizationState(nl_query, DefaultOrganizationId)
  /\ steps' = <<>>
  /\ UNCHANGED <<callVars, processVars, clientVars, catalogVars, sessionVars>>

RunReceiveQuery ==
  /\ flowRun # None
  /\ steps = <<>>
  /\ flowRun' = receive_query(flowRun)
  /\ steps' = Append(steps, "receive_query")
  /\ UNCHANGED <<callVars, processVars, clientVars, catalogVars, sessionVars>>

RunAnalyzePerformance(crew) ==
  /\ flowRun # None
  /\ steps = <<"receive_query">>
  /\ flowRun' = analyze_performance(flowRun, crew)
  /\ steps' = Append(steps, "analyze_performance")
  /\ UNCHANGED <<callVars, processVars, clientVars, catalogVars, sessionVars>>

RunMakeDecisions(crew) ==
  /\ flowRun # None
  /\ steps = <<"receive_query", "analyze_performance">>
  /\ flowRun' = make_decisions(flowRun, crew)
  /\ steps' = Append(steps, "make_decisions")
  /\ UNCHANGED <<callVars, processVars, clientVars, catalogVars, sessionVars>>

RunExecuteOptimizations(crew) ==
  /\ flowRun # None
  /\ steps = <<"receive_query", "analyze_performance", "make_decisions">>
  /\ flowRun' = execute_optimizations(flowRun, crew)
  /\ steps' = Append(steps, "execute_optimizations")
  /\ UNCHANGED <<callVars, processVars, clientVars, catalogVars, sessionVars>>

RunGenerateReport ==
  /\ flowRun # None
  /\ steps = <<"receive_query", "analyze_performance", "make_decisions",
               "execute_optimizations">>
  /\ flowRun' = generate_report(flowRun)
  /\ steps' = Append(steps, "generate_report")
  /\ UNCHANGED <<callVars, processVars, clientVars, catalogVars, sessionVars>>

\* kickoff returns the report (line 308); the flow object is dropped
ReturnReport ==
  /\ flowRun # None
  /\ Len(steps) = 5
  /\ flowRun' = None
  /\ steps' = <<>>
  /\ UNCHANGED <<callVars, processVars, clientVars, catalogVars, sessionVars>>

NextFlow ==
  \/ \E nl_query \in TestQueries \cup {""} : StartFlow(nl_query)
  \/ RunReceiveQuery
  \/ \E crew \in CrewOutcomes : RunAnalyzePerformance(crew)
  \/ \E crew \in CrewOutcomes : RunMakeDecisions(crew)
  \/ \E crew \in CrewOutcomes : RunExecuteOptimizations(crew)
  \/ RunGenerateReport
  \/ ReturnReport

SpecFlow == Init /\ [][NextFlow]_vars

----------------------------------------------------------------------------
(* The interactive session as a state machine.                              *)

MaxLines == 2

\* interactive_mode lines 205-220: the environment is validated and the
\* router built, or the process exits with status 1
StartSession(validated) ==
  /\ sessionPc = "off"
  /\ sessionPc' = IF validated /\ FlowRouterInit(None, environ).t = "return"
                  THEN "prompt" ELSE "exited"
  /\ UNCHANGED <<consumed, eof, dispatched, reported,
                 callVars, processVars, clientVars, catalogVars, stepVars>>

\* input() returns line (line 226) and the loop body handles it: an
\* execute_flow call is made for a query only (line 247; execute_query line 173)
ReadLine(line) ==
  /\ sessionPc = "prompt"
  /\ ~eof
  /\ Len(consumed) < MaxLines
  /\ consumed' = Append(consumed, line)
  /\ dispatched' = IF LineAction(line) = "execute" THEN Append(dispatched, Strip(line))
                   ELSE dispatched
  /\ sessionPc' = IF LineAction(line) = "execute" THEN "executing"
                  ELSE IF LineAction(line) = "break" THEN "returned"
                  ELSE "prompt"
  /\ UNCHANGED <<eof, reported, callVars, processVars, clientVars, catalogVars, stepVars>>

\* execute_flow returns or raises and execute_query returns (lines 170-200);
\* the loop goes on (line 249)
FinishQuery(r) ==
  /\ sessionPc = "executing"
  /\ reported' = execute_query(r)
  /\ sessionPc' = "prompt"
  /\ UNCHANGED <<consumed, eof, dispatched, callVars, processVars, clientVars, catalogVars,
                 stepVars>>

\* the input stream ends
CloseInput ==
  /\ sessionPc \in {"prompt", "executing", "handling"}
  /\ ~eof
  /\ eof' = TRUE
  /\ UNCHANGED <<sessionPc, consumed, dispatched, reported,
                 callVars, processVars, clientVars, catalogVars, stepVars>>

\* input() raises EOFError, an Exception: the handler of lines 254-256 runs
ReadEndOfInput ==
  /\ sessionPc = "prompt"
  /\ eof
  /\ sessionPc' = "handling"
  /\ UNCHANGED <<consumed, eof, dispatched, reported,
                 callVars, processVars, clientVars, catalogVars, stepVars>>

\* line 256: continue
Continue ==
  /\ sessionPc = "handling"
  /\ sessionPc' = "prompt"
  /\ UNCHANGED <<consumed, eof, dispatched, reported,
                 callVars, processVars, clientVars, catalogVars, stepVars>>

\* Ctrl-C while input() waits: lines 251-253
Interrupt ==
  /\ sessionPc = "prompt"
  /\ sessionPc' = "interrupted"
  /\ UNCHANGED <<consumed, eof, dispatched, reported,
                 callVars, processVars, clientVars, catalogVars, stepVars>>

NextSession ==
  \/ \E validated \in BOOLEAN : StartSession(validated)
  \/ \E line \in {"", "   ", "exit", " QUIT ", "Help", "examples", "FLOWS",
                   " Pause all underperforming campaigns ", "exit now",
                   "Generate performance report"} :
       ReadLine(line)
  \/ \E r \in {Return([success |-> TRUE]), Return([success |-> FALSE]),
                Raise("Exception", "boom"), Raise("KeyboardInterrupt", "")} :
       FinishQuery(r)
  \/ CloseInput
  \/ ReadEndOfInput
  \/ Continue
  \/ Interrupt

SpecSession == Init /\ [][NextSession]_vars

\* the session keeps taking the steps it can
SpecSessionFair == SpecSession /\ WF_vars(NextSession)

----------------------------------------------------------------------------
(* Properties of the classifier.                                            *)

FlowIds == DOMAIN FLOW_PATTERNS

\* C1: whatever the LLM call does (it raises, its text is not JSON, the JSON
\* is not an object, "flow" is missing or not a flow id, or the reply is
\* valid), classify_intent returns a pair whose flow name is a key of
\* FLOW_PATTERNS and lets no exception escape.
C1_ClassifyAlwaysReturnsFlow ==
  (llmReply # None) =>
    /\ classification.t = "pair"
    /\ classification.flow \in FlowIds
    /\ (op = "classify" => propagated = None)

\* classify_intent has returned after the LLM answered with JSON that is not
\* an object
C1_Witness ==
  /\ op = "classify"
  /\ pc = "done"
  /\ llmReply = [outcome |-> "text", parsed |-> JsonList]
  /\ classification.t = "pair"
  /\ propagated = None

\* the three failures of the LLM step that C2 names
LLMRaised(llm) == llm.outcome = "raises"
LLMNotJson(llm) == llm.outcome = "text" /\ llm.parsed.t = "invalid"
LLMFlowNotAnId(llm) ==
  /\ llm.outcome = "text"
  /\ llm.parsed.t = "object"
  /\ ~(llm.parsed.flow.t = "str" /\ llm.parsed.flow.v \in FlowIds)

\* C2: when the LLM call raises, or its text is not JSON, or the "flow" it
\* names is not one of the five flow ids, classify_intent returns exactly the
\* pair _fallback_classification returns for the same query, and reports no
\* error.
C2_FailedLLMEqualsFallback ==
  (llmReply # None /\ (LLMRaised(llmReply) \/ LLMNotJson(llmReply) \/ LLMFlowNotAnId(llmReply))) =>
    /\ classification = _fallback_classification(FLOW_PATTERNS, query)
    /\ propagated = None

\* the LLM named a flow that does not exist, with a confidence of 0.95, for a
\* query the keywords send to campaign setup with confidence 1/3
C2_Witness ==
  /\ op = "classify"
  /\ pc = "done"
  /\ query = "Create 10 campaigns"
  /\ llmReply = [outcome |-> "text",
                 parsed |-> [t |-> "object", flow |-> Str("invalid_flow"),
                             confidence |-> Num(<<19, 20>>), reasoning |-> Reasoning]]
  /\ classification = Pair("campaign_setup_flow", <<1, 3>>)

PositionOf(flow) == CHOOSE i \in 1..Len(FlowOrder) : FlowOrder[i] = flow

C4_FallbackConfidenceValue ==
  (op = "fallback" /\ pc = "done") =>
    LET k == Scores(FLOW_PATTERNS, query)[classification.flow]
        c == classification.confidence
    IN  /\ (k = 0 => c = <<3, 10>>)
        /\ (k = 1 => c = <<1, 3>>)
        /\ (k = 2 => c = <<2, 3>>)
        /\ (k >= 3 => c = <<1, 1>>)
        /\ RatLeq(<<0, 1>>, c) /\ RatLeq(c, <<1, 1>>)

\* four keywords of compliance_flow match: the quotient 4/3 is capped at 1
C4_Witness ==
  /\ op = "fallback"
  /\ pc = "done"
  /\ query = "audit access roles governance"
  /\ Scores(FLOW_PATTERNS, query)["compliance_flow"] = 4
  /\ classification = Pair("compliance_flow", <<1, 1>>)

----------------------------------------------------------------------------
(* Properties of route and execute_flow.                                    *)

\* C5: execute_flow lets no exception escape: when the import of the selected
\* flow or its entry point raises, it returns an envelope with success =
\* False, error = str(exception) and the routing decision that was made.
C5_ExecuteReturnsErrorEnvelope ==
  (op = "execute" /\ pc = "done") =>
    /\ propagated = None
    /\ envelope # None
    /\ envelope.routing = routing
    /\ routing = route(FLOW_PATTERNS, query, classification)
    /\ (entryOutcome.t = "raise" =>
          envelope.success = FALSE /\ envelope.error = entryOutcome.msg)
    /\ (entryCalls = <<>> =>
          /\ envelope.success = FALSE
          /\ envelope.error = ImportEntry(routing.flow_name, importEnv.v).msg)

\* the entry point of the selected flow raised
C5_Witness ==
  /\ op = "execute"
  /\ pc = "done"
  /\ entryOutcome = Raise("Exception", "MCP Error (-32000): not found")
  /\ envelope.success = FALSE
  /\ envelope.error = "MCP Error (-32000): not found"

\* C6: every envelope has "routing" and "success"; it has "result" exactly
\* when success is True and "error" exactly when success is False.
C6_EnvelopeShape ==
  (envelope # None) =>
    /\ {"routing", "success"} \subseteq DOMAIN envelope
    /\ ("result" \in DOMAIN envelope) <=> (envelope.success = TRUE)
    /\ ("error" \in DOMAIN envelope) <=> (envelope.success = FALSE)

\* an entry point returned None: the envelope still carries "result"
C6_Witness ==
  /\ envelope # None
  /\ entryOutcome = Return(None)
  /\ envelope.success = TRUE
  /\ DOMAIN envelope = {"routing", "result", "success"}

\* C7: for each of the five flows, when it is selected (and the flow modules
\* load), execute_flow invokes that flow's entry point, a function of the
\* flow's module, with the raw query; if the entry point returns, the
\* envelope has success = True and its return value as result.
C7_EveryFlowIsInvoked ==
  (op = "execute" /\ pc = "done" /\ importEnv = Str("ok")) =>
    /\ Len(entryCalls) = 1
    /\ entryCalls[1].name \in ModuleFunctions(ImportOf(routing.flow_name).module)
    /\ entryCalls[1].arg = query
    /\ (entryOutcome.t = "return" =>
          envelope.success = TRUE /\ envelope.result = entryOutcome.v)

\* the state part of C8
C8_AtMostOnce ==
  /\ Len(classifyCalls) <= 1
  /\ llmCalls <= 1
  /\ Len(entryCalls) <= 1
  /\ (pc = "received" => classifyCalls = <<>> /\ llmCalls = 0 /\ entryCalls = <<>>)
  /\ (op \in {"route", "execute"} /\ pc \in {"classified", "executing", "done"} =>
        classifyCalls = <<query>>)
  /\ (entryCalls # <<>> =>
        /\ op = "execute"
        /\ pc \in {"executing", "done"}
        /\ classification # None
        /\ routing # None
        /\ entryCalls[1] = [name |-> ImportOf(routing.flow_name).name, arg |-> query])

\* the step part of C8: the stages of one execute_flow call follow each other
\* in order, and the query is the same throughout
C8_InOrder ==
  /\ (op' = "execute" /\ pc' # pc) =>
        <<pc, pc'>> \in {<<"idle", "received">>, <<"received", "classified">>,
                         <<"classified", "executing">>, <<"executing", "done">>}
  /\ (op = "execute" /\ op' = "execute") => query' = query

\* C8: one execute_flow call goes RECEIVED, CLASSIFIED, EXECUTING, DONE for
\* every query, the empty one included; classify_intent is called once with
\* the unmodified query and sends at most one chat-completion request; only
\* after classification is an entry point invoked, at most one, the one of
\* routing.flow_name, with the same query; nothing is retried.
C8_SingleShotPipeline == [](C8_AtMostOnce) /\ [][C8_InOrder]_vars

\* a whitespace-only query went through all four stages
C8_Witness ==
  /\ op = "execute"
  /\ pc = "done"
  /\ query = " "
  /\ classifyCalls = <<" ">>
  /\ llmCalls = 1
  /\ Len(entryCalls) = 1
  /\ envelope # None

\* C9: the confidence classify_intent returns, and route stores, is a number
\* in [0.0, 1.0] for every query and every LLM reply.
C9_ConfidenceInUnitInterval ==
  /\ (classification # None =>
        /\ RatLeq(<<0, 1>>, classification.confidence)
        /\ RatLeq(classification.confidence, <<1, 1>>))
  /\ (routing # None =>
        /\ RatLeq(<<0, 1>>, routing.confidence)
        /\ RatLeq(routing.confidence, <<1, 1>>))

\* the flow each representative query is expected to reach
ExpectedFlows ==
  {<<"Create 10 holiday campaigns with $5000 budget each", "campaign_setup_flow">>,
   <<"Pause all underperforming campaigns", "optimization_flow">>,
   <<"Generate performance report", "analytics_flow">>,
   <<"Audit user permissions", "compliance_flow">>,
   <<"Create 10 campaigns", "campaign_setup_flow">>,
   <<"Launch new campaigns", "campaign_setup_flow">>,
   <<"Pause campaigns", "optimization_flow">>,
   <<"Optimize performance", "optimization_flow">>,
   <<"Generate report", "analytics_flow">>,
   <<"Analyze metrics", "analytics_flow">>,
   <<"Audit permissions", "compliance_flow">>,
   <<"Check security", "compliance_flow">>,
   <<"Refresh creatives", "creative_flow">>,
   <<"Creative fatigue", "creative_flow">>,
   <<"Find creatives that need refresh", "creative_flow">>,
   <<"Analyze creative fatigue", "creative_flow">>,
   <<"Identify underperforming ads", "creative_flow">>}

\* C10: _fallback_classification sends every representative query of the
\* spec scenarios and of the router tests to the flow they name.
C10_RepresentativeQueries ==
  (op = "fallback" /\ pc = "done") =>
    \A e \in ExpectedFlows : e[1] = query => classification.flow = e[2]

----------------------------------------------------------------------------
(* Failures downstream of routing.                                          *)

\* the import statement of the selected branch raised
ImportFailed == importEnv # None /\ entryCalls = <<>>

\* the entry point raised
EntryRaised == entryOutcome.t = "raise"

\* a step inside the flow failed: the entry point returned a report whose
\* status is "error"
FlowStepFailed ==
  /\ entryOutcome.t = "return"
  /\ "status" \in DOMAIN entryOutcome.v
  /\ entryOutcome.v.status = "error"

\* C11: whenever handling fails downstream of routing (the import or the
\* entry point raises, or a step inside the flow fails), execute_flow returns
\* an envelope with the routing decision, an error string and success = False.
C11_FailedQueryYieldsErrorEnvelope ==
  (op = "execute" /\ pc = "done" /\ (ImportFailed \/ EntryRaised \/ FlowStepFailed)) =>
    /\ propagated = None
    /\ envelope # None
    /\ envelope.routing = routing
    /\ envelope.success = FALSE
    /\ "error" \in DOMAIN envelope

----------------------------------------------------------------------------
(* Construction, the flow table and the ownership of returned values.       *)

\* C12: FlowRouter(...) and create_router(...) raise ValueError exactly when
\* neither the argument nor OPENAI_API_KEY supplies a non-empty key, and then
\* no router exists and no call can be made; otherwise the router and its
\* client hold the argument's key if it is non-empty, else the environment's.
C12_NoRouterWithoutKey ==
  /\ router = None => op = "none"
  /\ construction # None =>
       LET arg == construction.openai_api_key
           r == construction.outcome
       IN  IF ~Truthy(arg) /\ ~Truthy(environ)
             THEN r.t = "raise" /\ r.type = "ValueError" /\ router = None
           ELSE /\ r.t = "return"
                /\ router = r.v
                /\ router.api_key = (IF Truthy(arg) THEN arg.v ELSE environ.v)
                /\ router.client.api_key = router.api_key

C12_Witness ==
  /\ construction # None
  /\ construction.outcome.t = "raise"
  /\ construction.openai_api_key = Str("")
  /\ environ = None

WellFormedTable(patterns) ==
  /\ DOMAIN patterns = {FlowOrder[i] : i \in 1..Len(FlowOrder)}
  /\ Cardinality(DOMAIN patterns) = 5
  /\ \A flow \in DOMAIN patterns :
       /\ Len(patterns[flow].keywords) > 0
       /\ patterns[flow].description # ""
       /\ Len(patterns[flow].examples) > 0

\* C13: after any sequence of router operations the flow table has its five
\* flow ids, each with keywords, a description and examples, all as at
\* process start, and list_flows returns exactly this table.
C13_FlowTableFixed ==
  /\ flowTable = FLOW_PATTERNS
  /\ WellFormedTable(flowTable)
  /\ (op = "list_flows" /\ pc = "done") => listed = flowTable

C13_Witness == op = "list_flows" /\ pc = "done" /\ listed = FLOW_PATTERNS

\* C14: whatever the caller did to the values returned earlier, a call
\* returns what it would have returned had nothing been modified:
\* _fallback_classification, classify_intent and route compute from the
\* table of process start, list_flows returns it, and no call raises.
C14_ReturnedValuesAreOwned ==
  /\ propagated = None
  /\ (op = "fallback" /\ pc = "done") =>
        classification = _fallback_classification(FLOW_PATTERNS, query)
  /\ (op = "list_flows" /\ pc = "done") => listed = FLOW_PATTERNS
  /\ (llmReply # None /\ classification # None) =>
        classification = classify_intent(FLOW_PATTERNS, query, llmReply).v
  /\ routing # None => routing = route(FLOW_PATTERNS, query, classification)

----------------------------------------------------------------------------
(* Properties of the MCP client.                                            *)

\* C15: after k request-issuing operations, whatever their outcomes, the ids
\* sent were 1, 2, ..., k in call order and request_id = k; consecutive ids
\* differ by one.
C15_RequestIdsConsecutive ==
  /\ request_id = operations
  /\ Len(sent) = operations
  /\ \A i \in 1..Len(sent) : sent[i] = i

C15_Witness ==
  /\ operations = MaxRequests
  /\ clientPc = "done"
  /\ clientOutcome.t = "raise"
  /\ sent[1] + 1 = sent[2]

ResponseData == exchange.json

HasErrorMember ==
  /\ exchange # None
  /\ exchange.kind = "ok"
  /\ ResponseData.t = "object"
  /\ ResponseData.error # Absent

\* C16: when the response to call_tool has an "error" member, call_tool
\* raises, also when a "result" member is present; for an error object the
\* exception's message gives its code and message ("code" defaulting to -1,
\* "message" to "Unknown error").
C16_RpcErrorIsRaised ==
  (clientOp = "call_tool" /\ clientPc = "done" /\ HasErrorMember) =>
    /\ clientOutcome.t = "raise"
    /\ ResponseData.error.t = "object" =>
         clientOutcome.msg =
           "MCP Error ("
             \o (IF ResponseData.error.code = Absent THEN "-1"
                 ELSE IntToStr(ResponseData.error.code.v[1]))
             \o "): "
             \o (IF ResponseData.error.message = Absent THEN "Unknown error"
                 ELSE ResponseData.error.message.v)

C16_Witness ==
  /\ clientOp = "call_tool" /\ clientPc = "done" /\ HasErrorMember
  /\ ResponseData.result # Absent
  /\ clientOutcome.t = "raise"
  /\ clientOutcome.msg = "MCP Error (-32601): Tool not found"

TransportFailed ==
  exchange # None /\ exchange.kind \in {"connection_error", "timeout", "http_error"}

\* C17: on a connection error, a timeout or an HTTP error status call_tool
\* raises an exception that holds the cause and ends with its text, and every
\* call_tool or list_tools invocation issues exactly one POST, with one id.
C17_TransportFailureNoRetry ==
  /\ posts <= 1
  /\ clientPc \in {"posted", "done"} => posts = 1 /\ Len(sent) = request_id
  /\ (clientOp = "call_tool" /\ clientPc = "done" /\ TransportFailed) =>
       /\ clientOutcome.t = "raise"
       /\ "context" \in DOMAIN clientOutcome
       /\ clientOutcome.context = Transport(exchange)
       /\ clientOutcome.msg =
            "HTTP Error calling MCP tool '" \o calledTool.v \o "': "
              \o Transport(exchange).msg

C17_Witness ==
  /\ clientOp = "call_tool" /\ clientPc = "done"
  /\ exchange.kind = "timeout"
  /\ clientOutcome.t = "raise"
  /\ posts = 1

ResultMember == ResponseData.result

SuccessfulResponse ==
  /\ exchange # None
  /\ exchange.kind = "ok"
  /\ ResponseData.t = "object"
  /\ ResponseData.error = Absent
  /\ ResultMember # Absent

\* result is a mapping whose content is a non-empty list
HasContentList ==
  /\ ResultMember.t = "object"
  /\ ResultMember.content # Absent
  /\ ResultMember.content.t = "list"
  /\ Len(ResultMember.content.items) > 0

FirstElement == ResultMember.content.items[1]

FirstIsText ==
  /\ FirstElement.t = "object"
  /\ FirstElement.type = Str("text")

\* C18: on a successful response call_tool returns the JSON value of the
\* first content element's text if that element has type "text" (the text
\* itself if it is not JSON), and the result member verbatim in every other
\* case.
C18_UnwrapResult ==
  (clientOp = "call_tool" /\ clientPc = "done" /\ SuccessfulResponse) =>
    IF HasContentList /\ FirstIsText
      THEN /\ clientOutcome.t = "return"
           /\ FirstElement.text.t = "str"
           /\ clientOutcome.v =
                (IF JsonLoads(FirstElement.text.v).t = "return"
                   THEN JsonLoads(FirstElement.text.v).v
                 ELSE FirstElement.text)
    ELSE clientOutcome = Return(ResultMember)

\* the value the server supplied for the method
Supplied ==
  IF clientOp = "call_tool" THEN ResultMember # Absent
  ELSE /\ ResultMember # Absent
       /\ ResultMember.t = "object"
       /\ ResultMember.tools # Absent
       /\ clientOutcome.v = ResultMember.tools

\* C19: call_tool and list_tools return only what the server supplied: a
\* returned value comes from a response that is not an HTTP-level or
\* RPC-level error and that has the result payload of the method.
C19_NoSubstitutedDefault ==
  (clientOp \in {"call_tool", "list_tools"} /\ clientPc = "done"
     /\ clientOutcome.t = "return") =>
    /\ exchange.kind = "ok"
    /\ ResponseData.t = "object"
    /\ ResponseData.error = Absent
    /\ Supplied

\* C20: ping raises nothing; it returns True when list_tools returns for the
\* same exchange and False when list_tools raises, whatever the failure.
C20_PingNeverRaises ==
  (clientOp = "ping" /\ clientPc = "done") =>
    /\ clientOutcome.t = "return"
    /\ clientOutcome.v = Bool(list_tools(exchange).t = "return")
    /\ (TransportFailed \/ HasErrorMember \/ ResponseData.t \in {"invalid", "num"}) =>
         clientOutcome.v = Bool(FALSE)
    /\ posts = 1

C20_Witness ==
  /\ clientOp = "ping" /\ clientPc = "done"
  /\ HasErrorMember
  /\ clientOutcome = Return(Bool(FALSE))

----------------------------------------------------------------------------
(* Properties of a request the server never answers.                        *)

\* C21: when the server accepts the connection and never responds, each of
\* call_tool, list_tools and ping still comes back (a transport error for
\* the first two, False for ping): no call waits forever.
C21_NoCallBlocksForever ==
  (clientPc = "waiting") ~> (clientPc = "done")

----------------------------------------------------------------------------
(* Properties of the tool catalog.                                          *)

\* C22: when call_tool raises (an RPC error or a transport error) under a
\* catalog tool, the tool invocation raises too instead of returning a value.
C22_ToolFailureIsRaised ==
  \A t \in Threads :
    (threads[t].pc = "done" /\ call_tool(threads[t].tool, threads[t].x).t = "raise")
      => threads[t].outcome.t = "raise"

\* C23: wrap_mcp_tools returns, for every server_url and api_key, a catalog
\* of exactly 28 entries; each key is the name of its tool and the name its
\* func calls the client with; the tool names the tests require are there
\* (6 campaign, 5 strategy, 5 audience, 5 creative, 5 organization/user, 2
\* supply); nothing was sent and request_id is 0 until a tool is invoked.
C23_CatalogComplete ==
  catalog # None =>
    /\ catalog.t = "return"
    /\ Cardinality(DOMAIN catalog.v) = 28
    /\ \A key \in DOMAIN catalog.v :
         /\ catalog.v[key].name = key
         /\ catalog.v[key].func.tool_name = key
    /\ \A group \in DOMAIN RequiredTools : RequiredTools[group] \subseteq DOMAIN catalog.v
    /\ [group \in DOMAIN RequiredTools |-> Cardinality(RequiredTools[group])]
         = [campaign |-> 6, strategy |-> 5, audience |-> 5, creative |-> 5, user |-> 5,
            supply |-> 2]
    /\ (operations = 0 => request_id = 0 /\ sent = <<>>)

\* the catalog was built with the default URL and key and no tool was invoked
C23_Witness ==
  /\ catalog # None
  /\ catalog.t = "return"
  /\ catalog.v["get_supply_source_info"].func.tool_name = "get_supply_source_info"
  /\ operations = 0
  /\ request_id = 0

\* C24: get_tools_by_category of the catalog yields the seven categories,
\* each non-empty; every tool of the catalog is in exactly one place of
\* exactly one category, and every grouped tool is the catalog's tool.
C24_CategoriesPartitionCatalog ==
  (catalog # None /\ byCategory # None) =>
    /\ byCategory.t = "return"
    /\ DOMAIN byCategory.v =
         {"campaign_management", "strategy_management", "audience_management",
          "creative_management", "organization_management", "user_management",
          "supply_management"}
    /\ \A c \in DOMAIN byCategory.v : Len(byCategory.v[c]) > 0
    /\ \A key \in DOMAIN catalog.v :
         Cardinality({p \in UNION {{<<c, i>> : i \in 1..Len(byCategory.v[c])} :
                                     c \in DOMAIN byCategory.v} :
                        byCategory.v[p[1]][p[2]].name = key}) = 1
    /\ \A c \in DOMAIN byCategory.v : \A i \in 1..Len(byCategory.v[c]) :
         /\ byCategory.v[c][i].name \in DOMAIN catalog.v
         /\ byCategory.v[c][i] = catalog.v[byCategory.v[c][i].name]

\* the view was derived from a built catalog
C24_Witness ==
  /\ catalog # None
  /\ byCategory # None
  /\ byCategory.t = "return"
  /\ Len(byCategory.v["user_management"]) = 3
  /\ Len(byCategory.v["organization_management"]) = 2

\* C25: however the tool invocations of two call chains interleave, no
\* request id is sent twice, and once no invocation is in progress the
\* client's request_id equals the number of requests issued.
C25_ConcurrentIdsUnique ==
  catalog # None =>
    /\ \A i, j \in 1..Len(sent) : i # j => sent[i] # sent[j]
    /\ ((\A t \in Threads : threads[t].pc \in {"idle", "posted", "done"})
          => request_id = operations)

----------------------------------------------------------------------------
(* Properties of the optimization flow's steps.                             *)

\* the steps in the order the listeners chain them
StepOrder ==
  <<"receive_query", "analyze_performance", "make_decisions", "execute_optimizations",
    "generate_report">>

\* the crews in the order of the steps that run them
CrewOrder == <<"performance_analyzer", "decision_maker", "execution_agent">>

StartsWith(s, prefix) == Len(s) >= Len(prefix) /\ SubSeq(s, 1, Len(prefix)) = prefix

KickedCrews == {flowRun.kicked[i].crew : i \in 1..Len(flowRun.kicked)}

\* C26: the steps run in the order receive_query, analyze_performance,
\* make_decisions, execute_optimizations, generate_report, each at most once;
\* a crew runs only in its own step, in order and at most once; after a
\* failed analysis neither the decision nor the execution crew runs, after a
\* failed decision the execution crew does not run; the report comes last,
\* with status "error" and the recorded message if an error was recorded,
\* and status "success" with error None otherwise.
C26_StepsInOrder ==
  flowRun # None =>
    /\ Len(steps) <= Len(StepOrder)
    /\ steps = SubSeq(StepOrder, 1, Len(steps))
    /\ Len(flowRun.kicked) <= Len(CrewOrder)
    /\ Len(flowRun.kicked) < Len(steps) \/ steps = <<>>
    /\ \A i \in 1..Len(flowRun.kicked) : flowRun.kicked[i].crew = CrewOrder[i]
    /\ (StartsWith(flowRun.state.error, "Performance analysis failed: ")
          => KickedCrews \cap {"decision_maker", "execution_agent"} = {})
    /\ (StartsWith(flowRun.state.error, "Decision making failed: ")
          => "execution_agent" \notin KickedCrews)
    /\ (Len(steps) = Len(StepOrder) =>
          /\ DOMAIN flowRun.out = {"query", "organization_id", "performance_analysis",
                                   "optimization_decisions", "execution_results", "status",
                                   "error"}
          /\ (flowRun.state.error # ""
                => flowRun.out.status = "error" /\ flowRun.out.error = Str(flowRun.state.error))
          /\ (flowRun.state.error = ""
                => /\ flowRun.out.status = "success"
                   /\ flowRun.out.error = None
                   /\ KickedCrews = {CrewOrder[i] : i \in 1..Len(CrewOrder)}))

\* the analysis crew raised: the flow went through all five steps and the
\* other two crews never ran
C26_Witness ==
  /\ flowRun # None
  /\ steps = StepOrder
  /\ StartsWith(flowRun.state.error, "Performance analysis failed: ")
  /\ Len(flowRun.kicked) = 1
  /\ flowRun.out.status = "error"

\* C27: started with an empty query, the flow records "No query provided",
\* runs none of the three crews, and reports status "error" with that error
\* and empty performance_analysis, optimization_decisions, execution_results.
C27_EmptyQueryRunsNoCrew ==
  (flowRun # None /\ flowRun.state.nl_query = "" /\ steps # <<>>) =>
    /\ flowRun.kicked = <<>>
    /\ flowRun.state.error = "No query provided"
    /\ (Len(steps) = Len(StepOrder) =>
          /\ flowRun.out.status = "error"
          /\ flowRun.out.error = Str("No query provided")
          /\ DOMAIN flowRun.out.performance_analysis = {}
          /\ DOMAIN flowRun.out.optimization_decisions = {}
          /\ DOMAIN flowRun.out.execution_results = {})

----------------------------------------------------------------------------
(* Properties of the interactive session.                                   *)

ReservedCommands == {"exit", "quit", "help", "examples", "flows"}

\* C28: execute_flow is invoked exactly once, with the stripped line, for
\* each input line that is non-empty after stripping and is not one of exit,
\* quit, help, examples, flows in any letter case, and for no other line; a
\* query that fails or raises leaves the session at its prompt; after exit
\* or quit no line is read and no query is dispatched.
C28_SessionDispatch ==
  /\ [](LET IsQuery(line) == Strip(line) # "" /\ lower(Strip(line)) \notin ReservedCommands
            queries == SelectSeq(consumed, IsQuery)
        IN  /\ dispatched = [i \in 1..Len(queries) |-> Strip(queries[i])]
            /\ \A i \in 1..(Len(consumed) - 1) :
                 lower(Strip(consumed[i])) \notin {"exit", "quit"}
            /\ (sessionPc = "returned"
                  => /\ consumed # <<>>
                     /\ lower(Strip(consumed[Len(consumed)])) \in {"exit", "quit"})
            /\ (sessionPc = "executing"
                  => consumed # <<>> /\ IsQuery(consumed[Len(consumed)])))
  /\ [][/\ (sessionPc = "executing" => sessionPc' \in {"executing", "prompt"})
        /\ (sessionPc = "returned"
              => sessionPc' = "returned" /\ UNCHANGED <<consumed, dispatched>>)]_vars

\* a query typed with blanks around it was dispatched and failed, and the
\* session went on to read a quit command typed in capitals
C28_Witness ==
  /\ sessionPc = "returned"
  /\ reported = Bool(FALSE)
  /\ consumed[Len(consumed)] = " QUIT "
  /\ dispatched = <<"Pause all underperforming campaigns">>

\* C29: once the input has ended, interactive_mode returns.
C29_SessionEndsAtEndOfInput ==
  eof ~> (sessionPc \in {"returned", "interrupted", "exited"})

----------------------------------------------------------------------------
(* Properties of the flow table's examples.                                 *)

\* C30: for every flow of the table and every example of that flow,
\* _fallback_classification of the example returns that flow.
C30_ExamplesClassifyToOwnFlow ==
  (op = "fallback" /\ pc = "done" /\ flowTable = FLOW_PATTERNS) =>
    \A f \in DOMAIN FLOW_PATTERNS :
      (\E i \in 1..Len(FLOW_PATTERNS[f].examples) : FLOW_PATTERNS[f].examples[i] = query)
        => classification.flow = f

====
